---- MODULE Spec2Model ----
(***************************************************************************)
(* Model of the document embedding pipeline:                               *)
(*   - DocumentEmbedder.process_document (hash check, delete, read, chunk, *)
(*     embed with sequential fallback, upload),                            *)
(*   - the storage backends' check/delete/upload operations,               *)
(*   - DocumentEmbedder.get_embeddings_batch (thread pool fan-out/fan-in). *)
(* Texts are sequences of one-character strings.  Sizes are scaled down.   *)
(***************************************************************************)
EXTENDS Integers, Sequences, FiniteSets, TLC

\* ------------------------------------------------------------------ bounds

\* longest document text drawn as an input of process_document
MaxTextLen == 2
\* number of utcnow() readings (process runs that reach chunking)
MaxRuns == 2
\* chunk_size and overlap handed to process_document (scaled; overlap < chunk_size)
ChunkSize == 1
Overlap == 0

\* batch_size=100 that process_document passes to get_embeddings_batch
PipelineBatchSize == 100

Chars == {"a", " "}
Names == {"doc1", "doc2"}
Backends == {"postgresql", "supabase"}

None == <<>>

Min(a, b) == IF a < b THEN a ELSE b

\* all sequences over S of length 0..n
SeqsUpTo(S, n) == UNION {[1..k -> S] : k \in 0..n}

Texts == SeqsUpTo(Chars, MaxTextLen)

\* ------------------------------------------------------------- pure helpers

IsSpace(c) == c \in {" ", "\n"}

\* str.strip(): drop leading and trailing whitespace
RECURSIVE LStrip(_)
LStrip(s) == IF s # <<>> /\ IsSpace(Head(s)) THEN LStrip(Tail(s)) ELSE s

RECURSIVE RStrip(_)
RStrip(s) ==
  IF s # <<>> /\ IsSpace(s[Len(s)]) THEN RStrip(SubSeq(s, 1, Len(s) - 1)) ELSE s

Strip(s) == RStrip(LStrip(s))

\* a slice bound as Python resolves it: negative counts from the end, then clamped
SliceIndex(i, n) == IF i < 0 THEN (IF i + n < 0 THEN 0 ELSE i + n) ELSE Min(i, n)

\* text[start:end] with Python's 0-based, end-exclusive, clamped slice
Slice(text, start, end) ==
  SubSeq(text, SliceIndex(start, Len(text)) + 1, SliceIndex(end, Len(text)))

\* the character strategy's while loop of chunk_text
RECURSIVE CharacterWindows(_, _, _, _)
CharacterWindows(text, start, chunk_size, overlap) ==
  IF start < Len(text)
    THEN <<Slice(text, start, start + chunk_size)>>
           \o CharacterWindows(text, (start + chunk_size) - overlap, chunk_size, overlap)
    ELSE <<>>

\* [chunk.strip() for chunk in chunks if chunk.strip()]
RECURSIVE StripNonEmpty(_)
StripNonEmpty(cs) ==
  IF cs = <<>> THEN <<>>
  ELSE IF Strip(Head(cs)) # <<>>
    THEN <<Strip(Head(cs))>> \o StripNonEmpty(Tail(cs))
    ELSE StripNonEmpty(Tail(cs))

\* chunk_text with strategy "character"
chunk_text(text, chunk_size, overlap) ==
  StripNonEmpty(CharacterWindows(text, 0, chunk_size, overlap))

\* calculate_file_hash: SHA-256 of the file's bytes, modelled as an injective tag
calculate_file_hash(text) == <<"sha256", text>>

\* number of "a" characters of a text
RECURSIVE CountA(_)
CountA(s) == IF s = <<>> THEN 0 ELSE (IF Head(s) = "a" THEN 1 ELSE 0) + CountA(Tail(s))

\* the vector the embedding provider returns for one text (data[k].embedding)
ProviderEmbedding(text) == <<CountA(text), Len(text)>>

\* ceil(n / size): number of batches range(0, n, size) yields
NumBatches(n, size) == (n + size - 1) \div size

\* the log entries of one get_embeddings_batch(chunks, batch_size=100) call:
\* one provider request per batch, none for an empty chunk list
BatchRequests(cs) ==
  [k \in 1..NumBatches(Len(cs), PipelineBatchSize) |-> "embed_batch"]

\* zip(chunks, embeddings): pairs up to the shorter of the two
ZipLen(cs, es) == Min(Len(cs), Len(es))

\* the chunks_with_embeddings list of process_document
BuildRecords(cs, es, document_name, current_hash, at) ==
  [i \in 1..ZipLen(cs, es) |->
     [content |-> cs[i], embedding |-> es[i], document_name |-> document_name,
      chunk_index |-> i, file_hash |-> current_hash, processed_at |-> at]]

\* rows of a table that belong to one document, in table order
RECURSIVE RowsOf(_, _)
RowsOf(tbl, name) ==
  IF tbl = <<>> THEN <<>>
  ELSE IF Head(tbl).document_name = name
    THEN <<Head(tbl)>> \o RowsOf(Tail(tbl), name)
    ELSE RowsOf(Tail(tbl), name)

\* DELETE FROM table WHERE document_name = name
RECURSIVE RowsWithout(_, _)
RowsWithout(tbl, name) ==
  IF tbl = <<>> THEN <<>>
  ELSE IF Head(tbl).document_name = name
    THEN RowsWithout(Tail(tbl), name)
    ELSE <<Head(tbl)>> \o RowsWithout(Tail(tbl), name)

\* SELECT file_hash ... WHERE document_name = name LIMIT 1 (no ORDER BY: any
\* matching row may be the one returned); None when no row matches
HashesSeen(tbl, name) ==
  IF RowsOf(tbl, name) = <<>> THEN {None}
  ELSE {RowsOf(tbl, name)[i].file_hash : i \in 1..Len(RowsOf(tbl, name))}


\* ------------------------------------------------------------------- state

VARIABLES
  backend,        \* which StorageBackend create_storage_backend built
  txAborted,      \* psycopg2 connection: a statement failed and no rollback followed
  table,          \* the rows of the documents table, in insertion order
  clock,          \* number of datetime.utcnow() readings so far
  pc,             \* position of the current process_document call
  call,           \* its arguments and current_hash
  existing_hash,  \* what check_document_exists returned to it
  chunks,         \* its chunk list
  embeddings,     \* its embeddings list
  processed_at,   \* its processed_at
  log,            \* the collaborator calls it has made, in order
  result,         \* how it ended: returned value or raised exception
  snap,           \* the table as it was when the call started
  prev            \* relation of this call to the process_document call before it

pipeVars == <<backend, txAborted, table, clock, pc, call, existing_hash, chunks,
              embeddings, processed_at, log, result, snap, prev>>

\* state of one get_embeddings_batch call
VARIABLES
  texts,        \* argument texts
  batch_size,   \* argument batch_size
  workers_arg,  \* argument max_workers (Unset: None)
  workers_env,  \* environment variable EMBEDDING_MAX_WORKERS (Unset: not set)
  max_workers,  \* max_workers after the resolution from argument, env and default
  bpc,          \* position of the calling thread in get_embeddings_batch
  submitted,    \* number of batches handed to executor.submit so far
  future,       \* state of each batch's future: new, queued, running, ok, failed
  dispatches,   \* number of HTTP requests sent for each batch
  results,      \* the results dict, as (batch_index, embeddings) pairs in insertion order
  out           \* the returned list, or None

batchVars == <<texts, batch_size, workers_arg, workers_env, max_workers, bpc, submitted, future, dispatches,
               results, out>>

\* the part of the pipeline state that belongs to one process_document call
callVars == <<clock, pc, call, existing_hash, chunks, embeddings, processed_at,
              log, result, snap, prev>>

\* state of the storage backend object and of the last call made on it
VARIABLES
  has_pgvector,  \* PostgreSQLBackend.has_pgvector (FALSE before __init__ sets it)
  probes,        \* number of runs of _check_pgvector_extension so far
  last_op             \* the last backend call: arguments, table before it, outcome

storeVars == <<has_pgvector, probes, last_op>>

\* two background tasks of the web layer on the one psycopg2 connection
VARIABLES
  pending,  \* the rows as the connection's open transaction sees them
  task      \* per task: its document, records, position and outcome

connVars == <<pending, task>>

\* the character strategy's loop of one chunk_text call
VARIABLES
  cw_text,     \* argument text
  cw_size,     \* argument chunk_size
  cw_overlap,  \* argument overlap
  cw_start,    \* local start
  cw_windows,  \* the (start, end) pairs sliced so far, in order
  cw_chunks,   \* local chunks
  cw_pc        \* position: loop, returned

chunkVars == <<cw_text, cw_size, cw_overlap, cw_start, cw_windows, cw_chunks, cw_pc>>

\* one _chunk_by_paragraph call
VARIABLES
  pa_text,        \* argument text
  pa_max,         \* argument max_chunk_size
  pa_paragraphs,  \* local refined_paragraphs
  pa_next,        \* 1-based position of the loop over refined_paragraphs
  pa_chunks,      \* local chunks
  pa_current,     \* local current_chunk
  pa_size,        \* local current_size
  pa_members,     \* the indexes of the paragraphs held in current_chunk
  pa_origin,      \* for each chunk, what was joined into it
  pa_pc           \* position: loop, returned

paraVars == <<pa_text, pa_max, pa_paragraphs, pa_next, pa_chunks, pa_current,
              pa_size, pa_members, pa_origin, pa_pc>>

\* one _chunk_by_semantic call, from the embedding of its sentences on
VARIABLES
  se_sentences,   \* local sentences
  se_text,        \* argument text
  se_max,         \* argument max_chunk_size
  se_threshold,   \* argument similarity_threshold, in halves
  se_embeddings,  \* local embeddings
  se_valid,       \* local valid_sentences
  se_i,           \* position of the loop under way (1-based in the fallback)
  se_chunks,      \* local chunks
  se_current,     \* local current_chunk
  se_size,        \* local current_size
  se_pc,          \* position: embed, fallback, group, merge, returned, raised
  se_error,       \* the exception that left the call
  se_batch,       \* how get_embeddings_batch ended: none, ok, failed
  se_given,       \* what the provider gave, per batch item or per sentence
  se_kept,        \* the indexes in sentences of the valid_sentences
  se_members,     \* the indexes in valid_sentences held in current_chunk
  se_origin       \* for each chunk, the indexes in valid_sentences joined into it

semVars == <<se_sentences, se_text, se_max, se_threshold, se_embeddings, se_valid,
             se_i, se_chunks, se_current, se_size, se_pc, se_error, se_batch,
             se_given, se_kept, se_members, se_origin>>

\* one in-process cosine computation
VARIABLES
  co_vec1,  \* first vector (the query embedding in the search)
  co_vec2,  \* second vector (the stored embedding in the search)
  co_out    \* the outcome: a score or the exception raised, and who computed it

cosVars == <<co_vec1, co_vec2, co_out>>

\* the web layer's upload tasks
VARIABLES
  tasks_store,  \* the global tasks_store: task id -> status, stage, result, error
  uploads,      \* the task ids whose uploaded file is in UPLOAD_DIR
  aged,         \* the task ids created more than TASK_CLEANUP_HOURS ago
  bg,           \* per task id, the position of its background task
  bg_outcome    \* per task id, how its process_document call ended

webVars == <<tasks_store, uploads, aged, bg, bg_outcome>>

\* one "embed" command of the command line
VARIABLES
  cli_files,    \* len(file_paths)
  cli_seen,     \* how process_document ended for each file gone through
  cli_results,  \* local results: the processed, skipped and failed counters
  cli_pc        \* position: loop, summary

cliVars == <<cli_files, cli_seen, cli_results, cli_pc>>

\* the pipeline, the batch call, the backend, the connection, the character loop
coreVars == <<pipeVars, batchVars, storeVars, connVars, chunkVars>>

\* the other calls modelled on their own
sideVars == <<paraVars, semVars, cosVars, webVars, cliVars>>

vars == <<coreVars, sideVars>>

notPara == <<coreVars, semVars, cosVars, webVars, cliVars>>
notSem == <<coreVars, paraVars, cosVars, webVars, cliVars>>
notCos == <<coreVars, paraVars, semVars, webVars, cliVars>>
notWeb == <<coreVars, paraVars, semVars, cosVars, cliVars>>
notCli == <<coreVars, paraVars, semVars, cosVars, webVars>>

\* what an action of one part leaves alone
notPipe == <<batchVars, storeVars, connVars, chunkVars, sideVars>>
notBatch == <<pipeVars, storeVars, connVars, chunkVars, sideVars>>

NoCall == [name |-> "", text |-> <<>>, hash |-> None, skip |-> FALSE]
NoResult == [kind |-> "none", skipped |-> FALSE, chunks_created |-> 0, stage |-> ""]
Returned(skipped, n) ==
  [kind |-> "returned", skipped |-> skipped, chunks_created |-> n, stage |-> ""]
Raised(stage) ==
  [kind |-> "raised", skipped |-> FALSE, chunks_created |-> 0, stage |-> stage]

\* number of entries of the call log equal to op
RECURSIVE CountOp(_, _)
CountOp(l, op) ==
  IF l = <<>> THEN 0 ELSE (IF Head(l) = op THEN 1 ELSE 0) + CountOp(Tail(l), op)

Did(op) == CountOp(log, op) > 0

\* prev: does the current call repeat the call before it (same name, same hash,
\* skip_if_exists both times, the earlier one returned without skipping), and how
\* many upload_chunks calls that earlier call made
NoSummary == [repeat |-> FALSE, uploads |-> 0]
Summary(name, text, skip) ==
  IF /\ result.kind = "returned" /\ ~result.skipped
     /\ call.skip /\ skip
     /\ name = call.name /\ calculate_file_hash(text) = call.hash
    THEN [repeat |-> TRUE, uploads |-> CountOp(log, "upload")]
    ELSE NoSummary

PipeInit ==
  /\ backend \in Backends
  /\ txAborted = FALSE
  /\ table = <<>>
  /\ clock = 0
  /\ pc = "idle"
  /\ call = NoCall
  /\ existing_hash = None
  /\ chunks = <<>>
  /\ embeddings = <<>>
  /\ processed_at = 0
  /\ log = <<>>
  /\ result = NoResult
  /\ snap = <<>>
  /\ prev = NoSummary

\* ------------------------------------------------------- storage backends

\* A statement can succeed unless the psycopg2 connection is in a failed
\* transaction (every command is then rejected until a rollback).  The Supabase
\* client issues independent HTTP requests and keeps no such state.
StatementCanSucceed == ~(backend = "postgresql" /\ txAborted)

\* connection state after an exception that the handler does not roll back
AfterUnrolledFailure == IF backend = "postgresql" THEN TRUE ELSE txAborted

\* connection state after commit() or after the except branch's rollback()
AfterCommitOrRollback == FALSE

\* a delete that removes every row of the table
DeleteSucceedsForAll(name) ==
  /\ StatementCanSucceed
  /\ table' = <<>>
  /\ txAborted' = AfterCommitOrRollback

\* delete_document_chunks, success branch: rows of the name gone, committed
DeleteSucceeds(name) ==
  /\ StatementCanSucceed
  /\ table' = RowsWithout(table, name)
  /\ txAborted' = AfterCommitOrRollback

\* delete_document_chunks, except branch: rollback, re-raise
DeleteFails ==
  /\ table' = table
  /\ txAborted' = AfterCommitOrRollback

\* upload_chunks, success branch: every record inserted, committed
UploadSucceeds(records) ==
  /\ StatementCanSucceed
  /\ table' = table \o records
  /\ txAborted' = AfterCommitOrRollback

\* upload_chunks, except branch: rollback, re-raise
UploadFails ==
  /\ table' = table
  /\ txAborted' = AfterCommitOrRollback

\* --------------------------------------------------------- process_document

\* entry: document_name, calculate_file_hash(file_path), then the skip_if_exists test
StartProcess(name, text, skip) ==
  /\ pc = "idle"
  /\ clock < MaxRuns
  /\ call' = [name |-> name, text |-> text, hash |-> calculate_file_hash(text),
              skip |-> skip]
  /\ prev' = Summary(name, text, skip)
  /\ pc' = IF skip THEN "check" ELSE "read"
  /\ existing_hash' = None
  /\ chunks' = <<>>
  /\ embeddings' = <<>>
  /\ processed_at' = 0
  /\ log' = <<>>
  /\ result' = NoResult
  /\ snap' = table
  /\ UNCHANGED <<backend, txAborted, table, clock>>
  /\ UNCHANGED notPipe

\* "if existing_hash: if existing_hash == current_hash": the document is skipped
SkipsUnchanged(existing, current) == existing # None /\ existing = current

\* what process_document does with the value check_document_exists returned
AfterCheck(h) ==
  /\ existing_hash' = h
  /\ IF SkipsUnchanged(h, call.hash)
       THEN pc' = "idle" /\ result' = Returned(TRUE, 0)
       ELSE /\ pc' = IF h # None THEN "delete" ELSE "read"
            /\ result' = result

\* check_document_exists: the hash of a row of that name or None; an exception
\* of the query is caught inside it and None is returned, with no rollback
ProcessCheck ==
  /\ pc = "check"
  /\ log' = Append(log, "check")
  /\ \/ /\ StatementCanSucceed
        /\ \E h \in HashesSeen(table, call.name) : AfterCheck(h)
        /\ txAborted' = txAborted
     \/ /\ AfterCheck(None)
        /\ txAborted' = AfterUnrolledFailure
  /\ UNCHANGED <<backend, table, clock, call, chunks, embeddings, processed_at,
                 snap, prev>>
  /\ UNCHANGED notPipe

\* "Document changed, updating": delete_document_chunks before anything is read
ProcessDelete ==
  /\ pc = "delete"
  /\ log' = Append(log, "delete")
  /\ \/ DeleteSucceeds(call.name) /\ pc' = "read" /\ result' = result
     \/ DeleteFails /\ pc' = "idle" /\ result' = Raised("delete")
  /\ UNCHANGED <<backend, clock, call, existing_hash, chunks, embeddings,
                 processed_at, snap, prev>>
  /\ UNCHANGED notPipe

\* read_document: the text, or FileNotFoundError / ValueError / a parser error
ProcessRead ==
  /\ pc = "read"
  /\ log' = Append(log, "read")
  /\ \/ pc' = "chunk" /\ result' = result
     \/ pc' = "idle" /\ result' = Raised("read")
  /\ UNCHANGED <<backend, txAborted, table, clock, call, existing_hash, chunks,
                 embeddings, processed_at, snap, prev>>
  /\ UNCHANGED notPipe

\* chunk_text, then processed_at = datetime.utcnow()
ProcessChunk ==
  /\ pc = "chunk"
  /\ log' = Append(log, "chunk")
  /\ chunks' = chunk_text(call.text, ChunkSize, Overlap)
  /\ processed_at' = clock + 1
  /\ clock' = clock + 1
  /\ pc' = "embed"
  /\ UNCHANGED <<backend, txAborted, table, call, existing_hash, embeddings,
                 result, snap, prev>>
  /\ UNCHANGED notPipe

\* get_embeddings_batch(chunks, batch_size=100) returned: one vector per chunk,
\* in chunk order; an empty chunk list returns [] without any request
ProcessEmbedBatchOk ==
  /\ pc = "embed"
  /\ embeddings' = [i \in 1..Len(chunks) |-> ProviderEmbedding(chunks[i])]
  /\ log' = log \o BatchRequests(chunks)
  /\ pc' = "upload"
  /\ result' = result

\* the aborting alternative to the except branch (no fallback)
AbortOnBatchFailure ==
  /\ pc = "embed"
  /\ chunks # <<>>
  /\ log' = log \o BatchRequests(chunks)
  /\ embeddings' = <<>>
  /\ pc' = "idle"
  /\ result' = Raised("embedding")

\* get_embeddings_batch raised: except branch, embeddings = [] and the
\* sequential loop starts
ProcessEmbedBatchFailed ==
  /\ pc = "embed"
  /\ chunks # <<>>
  /\ log' = log \o BatchRequests(chunks)
  /\ embeddings' = <<>>
  /\ pc' = "fallback"
  /\ result' = result

\* a response without its item at position d
WithoutItem(es, d) == [i \in 1..(Len(es) - 1) |-> IF i < d THEN es[i] ELSE es[i + 1]]

\* the responses to the texts cs that hold one item fewer or one item more
\* than texts were sent: one of the vectors missing, or the last one twice
MiscountedResponses(cs) ==
  LET es == [i \in 1..Len(cs) |-> ProviderEmbedding(cs[i])]
  IN  {WithoutItem(es, d) : d \in 1..Len(es)} \cup {Append(es, es[Len(es)])}

\* get_embeddings_batch returned what the provider sent, and the provider
\* sent one item fewer or more than texts: nothing compares the two counts
\* (a step of the pipeline only where the provider is not taken to answer
\* with one vector per text)
ProcessEmbedBatchMiscounted ==
  /\ pc = "embed"
  /\ chunks # <<>>
  /\ embeddings' \in MiscountedResponses(chunks)
  /\ log' = log \o BatchRequests(chunks)
  /\ pc' = "upload"
  /\ result' = result
  /\ UNCHANGED <<backend, txAborted, table, clock, call, existing_hash, chunks,
                 processed_at, snap, prev>>
  /\ UNCHANGED notPipe

ProcessEmbedBatch ==
  /\ (ProcessEmbedBatchOk \/ ProcessEmbedBatchFailed)
  /\ UNCHANGED <<backend, txAborted, table, clock, call, existing_hash, chunks,
                 processed_at, snap, prev>>
  /\ UNCHANGED notPipe

\* one iteration of the sequential loop: embeddings.append(get_embedding(chunk));
\* an exception of get_embedding leaves process_document
ProcessEmbedOne ==
  /\ pc = "fallback"
  /\ IF Len(embeddings) < Len(chunks)
       THEN /\ log' = Append(log, "embed_one")
            /\ \/ /\ embeddings' =
                       Append(embeddings, ProviderEmbedding(chunks[Len(embeddings) + 1]))
                  /\ pc' = pc
                  /\ result' = result
               \/ /\ embeddings' = embeddings
                  /\ pc' = "idle"
                  /\ result' = Raised("embedding")
       ELSE /\ pc' = "upload"
            /\ UNCHANGED <<log, embeddings, result>>
  /\ UNCHANGED <<backend, txAborted, table, clock, call, existing_hash, chunks,
                 processed_at, snap, prev>>
  /\ UNCHANGED notPipe

\* build chunks_with_embeddings, upload_chunks, return
ProcessUpload ==
  /\ pc = "upload"
  /\ log' = Append(log, "upload")
  /\ pc' = "idle"
  /\ \/ /\ UploadSucceeds(BuildRecords(chunks, embeddings, call.name, call.hash,
                                       processed_at))
        /\ result' = Returned(FALSE, Len(chunks))
     \/ /\ UploadFails
        /\ result' = Raised("upload")
  /\ UNCHANGED <<backend, clock, call, existing_hash, chunks, embeddings,
                 processed_at, snap, prev>>
  /\ UNCHANGED notPipe

\* DELETE /api/documents/{name}: check_document_exists, 404 when nothing is
\* stored, else delete_document_chunks
DeleteDocument(name) ==
  /\ pc = "idle"
  /\ \/ /\ StatementCanSucceed
        /\ \E h \in HashesSeen(table, name) :
             IF h = None
               THEN table' = table /\ txAborted' = txAborted
               ELSE DeleteSucceeds(name) \/ DeleteFails
     \/ /\ table' = table
        /\ txAborted' = AfterUnrolledFailure
  /\ prev' = NoSummary
  /\ result' = NoResult
  /\ call' = NoCall
  /\ existing_hash' = None
  /\ chunks' = <<>>
  /\ embeddings' = <<>>
  /\ processed_at' = 0
  /\ log' = <<>>
  /\ snap' = <<>>
  /\ UNCHANGED <<backend, clock, pc>>
  /\ UNCHANGED notPipe

PipeNext ==
  \/ \E name \in Names, text \in Texts, skip \in BOOLEAN : StartProcess(name, text, skip)
  \/ ProcessCheck
  \/ ProcessDelete
  \/ ProcessRead
  \/ ProcessChunk
  \/ ProcessEmbedBatch
  \/ ProcessEmbedOne
  \/ ProcessUpload
  \/ \E name \in Names : DeleteDocument(name)




\* ------------------------------------------------------ get_embeddings_batch

\* bounds of the batch call's inputs
MaxBatchTexts == 5
MaxBatchSize == 2
MaxWorkersArg == 2
\* int(os.getenv("EMBEDDING_MAX_WORKERS", "4"))
DefaultMaxWorkers == 4

\* n pairwise different embeddable texts: "a", "aa", "aaa", ...
DistinctTexts(n) == [k \in 1..n |-> [c \in 1..k |-> "a"]]
\* text lists handed to get_embeddings_batch: pairwise different texts (any
\* misplaced vector shows), or such a list with one text replaced by a blank one
BatchTextLists ==
  {DistinctTexts(n) : n \in 0..MaxBatchTexts}
    \cup UNION {{[DistinctTexts(n) EXCEPT ![j] = <<" ">>] : j \in 1..n} :
                 n \in 1..MaxBatchTexts}
\* an integer argument or environment variable that is None / not set
Unset == -1
\* values of the EMBEDDING_MAX_WORKERS environment variable
EnvMaxWorkers == {Unset, 3}

\* not text or not text.strip()
IsBlank(text) == Strip(text) = <<>>

\* batches[i] = texts[i*size : (i+1)*size] for the 0-based batch index i
BatchOf(ts, size, i) == Slice(ts, i * size, (i + 1) * size)

\* [item['embedding'] for item in data['data']]: one vector per text, request order
ProviderResponse(batch) == [k \in 1..Len(batch) |-> ProviderEmbedding(batch[k])]

total_batches == NumBatches(Len(texts), batch_size)
BatchIds == 0..(total_batches - 1)

\* max_workers: the parameter when given, else the environment, else 4
ResolveMaxWorkers(param, env) ==
  IF param # Unset THEN param ELSE IF env # Unset THEN env ELSE DefaultMaxWorkers

\* requests of this call that the provider has received and not yet answered
InFlight == Cardinality({i \in DOMAIN future : future[i] = "running"})

\* results[i]
RECURSIVE Lookup(_, _)
Lookup(rs, i) ==
  IF rs = <<>> THEN <<>>
  ELSE IF Head(rs)[1] = i THEN Head(rs)[2] ELSE Lookup(Tail(rs), i)

\* the merge in completion order: for r in results.values(): extend(r)
RECURSIVE ReassembleByCompletion(_, _)
ReassembleByCompletion(rs, n) ==
  IF rs = <<>> THEN <<>> ELSE Head(rs)[2] \o ReassembleByCompletion(Tail(rs), n)

\* for i in range(total_batches): all_embeddings.extend(results[i])
RECURSIVE ReassembleFrom(_, _, _)
ReassembleFrom(rs, i, n) ==
  IF i >= n THEN <<>> ELSE Lookup(rs, i) \o ReassembleFrom(rs, i + 1, n)

Reassemble(rs, n) == ReassembleFrom(rs, 0, n)

BatchIdle ==
  /\ texts = <<>>
  /\ batch_size = 1
  /\ workers_arg = Unset
  /\ workers_env = Unset
  /\ max_workers = Unset
  /\ bpc = "returned"
  /\ submitted = 0
  /\ future = <<>>
  /\ dispatches = <<>>
  /\ results = <<>>
  /\ out = <<>>

\* a call of get_embeddings_batch is entered with its arguments
BatchInit ==
  /\ texts \in BatchTextLists
  /\ batch_size \in 1..MaxBatchSize
  /\ workers_arg \in {Unset} \cup (1..MaxWorkersArg)
  /\ workers_env \in EnvMaxWorkers
  /\ max_workers = Unset
  /\ bpc = "entered"
  /\ submitted = 0
  /\ future = [i \in 0..(NumBatches(Len(texts), batch_size) - 1) |-> "new"]
  /\ dispatches = [i \in 0..(NumBatches(Len(texts), batch_size) - 1) |-> 0]
  /\ results = <<>>
  /\ out = None

\* empty input returns []; a blank text raises ValueError; then max_workers is
\* resolved, the batches are built and the call takes the single-batch or the
\* thread-pool path
BatchEnter ==
  /\ bpc = "entered"
  /\ IF texts = <<>>
       THEN bpc' = "returned" /\ out' = <<>>
       ELSE IF \E k \in 1..Len(texts) : IsBlank(texts[k])
         THEN bpc' = "raised" /\ out' = None
         ELSE /\ bpc' = IF total_batches = 1 THEN "single" ELSE "submit"
              /\ out' = out
  /\ max_workers' = IF texts = <<>> \/ (\E k \in 1..Len(texts) : IsBlank(texts[k]))
                      THEN max_workers
                      ELSE ResolveMaxWorkers(workers_arg, workers_env)
  /\ UNCHANGED <<texts, batch_size, workers_arg, workers_env, submitted, future,
                 dispatches, results>>
  /\ UNCHANGED notBatch

\* single batch: _process_single_batch(batches[0], 0, 1) sends its request
SingleRequest ==
  /\ bpc = "single"
  /\ future[0] = "new"
  /\ future' = [future EXCEPT ![0] = "running"]
  /\ dispatches' = [dispatches EXCEPT ![0] = @ + 1]
  /\ UNCHANGED <<texts, batch_size, workers_arg, workers_env, max_workers, bpc, submitted, results, out>>
  /\ UNCHANGED notBatch

\* ... and returns the embeddings of the response, or re-raises
SingleResponse ==
  /\ bpc = "single"
  /\ future[0] = "running"
  /\ \/ /\ future' = [future EXCEPT ![0] = "ok"]
        /\ bpc' = "returned"
        /\ out' = ProviderResponse(BatchOf(texts, batch_size, 0))
     \/ /\ future' = [future EXCEPT ![0] = "failed"]
        /\ bpc' = "raised"
        /\ out' = None
  /\ UNCHANGED <<texts, batch_size, workers_arg, workers_env, max_workers, submitted, dispatches, results>>
  /\ UNCHANGED notBatch

\* executor.submit(self._process_single_batch, batch, i, total_batches), in index order
Submit ==
  /\ bpc = "submit"
  /\ IF submitted < total_batches
       THEN /\ future' = [future EXCEPT ![submitted] = "queued"]
            /\ submitted' = submitted + 1
            /\ bpc' = bpc
       ELSE /\ bpc' = "collect"
            /\ UNCHANGED <<future, submitted>>
  /\ UNCHANGED <<texts, batch_size, workers_arg, workers_env, max_workers, dispatches, results, out>>
  /\ UNCHANGED notBatch

\* the pool runs without any limit on its threads
WorkerFreeUnbounded == TRUE

\* ThreadPoolExecutor(max_workers): a work item starts only on one of at most
\* max_workers threads, each running one item at a time
WorkerFree == InFlight < max_workers

\* a worker thread takes the oldest queued work item and sends its request
Dispatch ==
  /\ bpc \in {"submit", "collect", "draining"}
  /\ WorkerFree
  /\ \E i \in BatchIds :
        /\ future[i] = "queued"
        /\ \A j \in BatchIds : future[j] = "queued" => i <= j
        /\ future' = [future EXCEPT ![i] = "running"]
        /\ dispatches' = [dispatches EXCEPT ![i] = @ + 1]
  /\ UNCHANGED <<texts, batch_size, workers_arg, workers_env, max_workers, bpc, submitted, results, out>>
  /\ UNCHANGED notBatch

\* a request completes: the future holds (batch_index, embeddings) or the exception
Complete(i) ==
  /\ bpc \in {"submit", "collect", "draining"}
  /\ future[i] = "running"
  /\ \E ok \in BOOLEAN : future' = [future EXCEPT ![i] = IF ok THEN "ok" ELSE "failed"]
  /\ UNCHANGED <<texts, batch_size, workers_arg, workers_env, max_workers, bpc, submitted, dispatches, results,
                 out>>
  /\ UNCHANGED notBatch

Collected == {results[k][1] : k \in 1..Len(results)}

\* as_completed hands over a finished future; future.result() returns and
\* results[batch_index] = batch_embeddings
CollectOk(i) ==
  /\ bpc = "collect"
  /\ future[i] = "ok"
  /\ i \notin Collected
  /\ results' = Append(results, <<i, ProviderResponse(BatchOf(texts, batch_size, i))>>)
  /\ UNCHANGED <<texts, batch_size, workers_arg, workers_env, max_workers, bpc, submitted, future, dispatches, out>>
  /\ UNCHANGED notBatch

\* the exception is swallowed and whatever was collected is returned
ReturnPartialOnFailure(i) ==
  /\ bpc = "collect"
  /\ future[i] = "failed"
  /\ bpc' = "returned"
  /\ out' = ReassembleByCompletion(results, total_batches)
  /\ UNCHANGED <<texts, batch_size, workers_arg, workers_env, max_workers, submitted, future, dispatches, results>>
  /\ UNCHANGED notBatch

\* as_completed hands over a failed future; future.result() re-raises and the
\* with block is left: shutdown(wait=True) lets the pool finish first
CollectFailed(i) ==
  /\ bpc = "collect"
  /\ future[i] = "failed"
  /\ bpc' = "draining"
  /\ UNCHANGED <<texts, batch_size, workers_arg, workers_env, max_workers, submitted, future, dispatches, results,
                 out>>
  /\ UNCHANGED notBatch

\* executor shutdown after a failure: every work item has run, the exception
\* leaves get_embeddings_batch
Drained ==
  /\ bpc = "draining"
  /\ \A i \in BatchIds : future[i] \in {"ok", "failed"}
  /\ bpc' = "raised"
  /\ out' = None
  /\ UNCHANGED <<texts, batch_size, workers_arg, workers_env, max_workers, submitted, future, dispatches, results>>
  /\ UNCHANGED notBatch

\* every future collected: the with block ends and the lists are merged by index
Finish ==
  /\ bpc = "collect"
  /\ Collected = BatchIds
  /\ bpc' = "returned"
  /\ out' = Reassemble(results, total_batches)
  /\ UNCHANGED <<texts, batch_size, workers_arg, workers_env, max_workers, submitted, future, dispatches, results>>
  /\ UNCHANGED notBatch

BatchNext ==
  \/ BatchEnter
  \/ SingleRequest
  \/ SingleResponse
  \/ Submit
  \/ Dispatch
  \/ \E i \in BatchIds : Complete(i)
  \/ \E i \in BatchIds : CollectOk(i)
  \/ \E i \in BatchIds : CollectFailed(i)
  \/ Drained
  \/ Finish

\* -------------------------------------------------------- specifications

\* ------------------------------------ the storage backend, call after call

\* number of rows the table is filled up to (no upload goes beyond it)
MaxRows == 2
\* largest limit handed to search_similar_chunks
MaxLimit == 2

\* embedding vectors of stored chunks, and query embeddings
Vectors == {<<0, 0>>, <<1, 1>>, <<-1, 0>>}
Queries == {<<1, 0>>, <<0, 0>>}

\* sum(a * b for a, b in zip(u, v))
RECURSIVE Dot(_, _)
Dot(u, v) ==
  IF u = <<>> \/ v = <<>> THEN 0 ELSE Head(u) * Head(v) + Dot(Tail(u), Tail(v))

\* similarity values: the number num / sqrt(den2), or NaN
Ratio(num, den2) == [kind |-> "number", num |-> num, den2 |-> den2]
NaN == [kind |-> "nan", num |-> 0, den2 |-> 0]

\* the product of the two magnitudes is zero
ZeroMagnitude(q, e) == Dot(q, q) * Dot(e, e) = 0

\* dot / (|q| * |e|)
Cosine(q, e) == Ratio(Dot(q, e), Dot(q, q) * Dot(e, e))

\* SupabaseBackend.search_similar_chunks: 0.0 when a magnitude is zero
CosinePython(q, e) == IF ZeroMagnitude(q, e) THEN Ratio(0, 1) ELSE Cosine(q, e)

\* pgvector's cosine distance "embedding <=> query": 1 - cosine, NaN when a
\* magnitude is zero
CosineDistance(q, e) ==
  IF ZeroMagnitude(q, e) THEN [kind |-> "nan", of |-> NaN]
                         ELSE [kind |-> "number", of |-> Cosine(q, e)]

\* "1 - (embedding <=> query) as similarity"
OneMinus(d) == IF d.kind = "nan" THEN NaN ELSE d.of

CosineNative(q, e) == OneMinus(CosineDistance(q, e))

\* a >= b for two numbers num / sqrt(den2) with den2 > 0
NumberGeq(a, b) ==
  IF a.num >= 0 /\ b.num < 0 THEN TRUE
  ELSE IF a.num < 0 /\ b.num >= 0 THEN FALSE
  ELSE IF a.num >= 0 THEN a.num * a.num * b.den2 >= b.num * b.num * a.den2
  ELSE a.num * a.num * b.den2 <= b.num * b.num * a.den2

\* a may stand before b in "ORDER BY similarity DESC" and in
\* sort(key=similarity, reverse=True)
DescOrder(a, b) == a.kind = "number" /\ b.kind = "number" /\ NumberGeq(a, b)

\* a may stand before b in "ORDER BY embedding <=> query": ascending distance,
\* NaN after every number
DistanceOrder(a, b) ==
  \/ b.kind = "nan"
  \/ a.kind = "number" /\ b.kind = "number" /\ NumberGeq(a, b)

\* the arrangements of the rows 1..n
Arrangements(n) == {p \in [1..n -> 1..n] : \A i, j \in 1..n : i # j => p[i] # p[j]}

\* one row of a search result
ResultRow(row, similarity) ==
  [content |-> row.content, document_name |-> row.document_name,
   chunk_index |-> row.chunk_index, similarity |-> similarity]

\* the first "limit" rows of each arrangement of tbl whose similarities, as Sim
\* gives them, are ordered by InOrder
RankedResults(tbl, q, limit, Sim(_, _), InOrder(_, _)) ==
  LET n == Len(tbl)
      sims == [i \in 1..n |-> Sim(q, tbl[i].embedding)]
      ordered == {r \in Arrangements(n) :
                    \A i \in 1..(n - 1) : InOrder(sims[r[i]], sims[r[i + 1]])}
  IN  { [k \in 1..Min(limit, n) |-> ResultRow(tbl[p[k]], sims[p[k]])] :
          p \in ordered }

Answer(rows) == [ok |-> TRUE, error |-> "", rows |-> rows]
Failure(error) == [ok |-> FALSE, error |-> error, rows |-> <<>>]

\* the has_pgvector branch: ORDER BY distance, LIMIT
NativeSearch(tbl, q, limit) ==
  {Answer(rows) : rows \in RankedResults(tbl, q, limit, CosineNative, DistanceOrder)}

\* the REAL[] branch: the SQL expression divides by the product of the
\* magnitudes, and PostgreSQL raises "division by zero" for the statement when
\* that product is zero for a row
ManualSearch(tbl, q, limit) ==
  IF \E i \in 1..Len(tbl) : ZeroMagnitude(q, tbl[i].embedding)
    THEN {Failure("division_by_zero")}
    ELSE {Answer(rows) : rows \in RankedResults(tbl, q, limit, Cosine, DescOrder)}

\* SupabaseBackend: all rows fetched, similarity computed and sorted in Python
PythonSearch(tbl, q, limit) ==
  {Answer(rows) : rows \in RankedResults(tbl, q, limit, CosinePython, DescOrder)}

NoOp ==
  [kind |-> "none", name |-> "", query |-> <<>>, limit |-> 0, records |-> <<>>,
   before |-> <<>>, ok |-> TRUE, error |-> "", returned |-> <<>>, variant |-> ""]

StoreIdle ==
  /\ has_pgvector = FALSE
  /\ probes = 0
  /\ last_op = NoOp

\* create_storage_backend has picked the class; __init__ has not run yet
StoreInit ==
  /\ has_pgvector = FALSE
  /\ probes = 0
  /\ last_op = [NoOp EXCEPT !.kind = "new"]

Constructed == last_op.kind \notin {"none", "new"}

\* PostgreSQLBackend.__init__: connect, then has_pgvector = the probe's answer,
\* False when the probe's query raises (caught, no rollback).
\* SupabaseBackend.__init__: create_client, no probe and no variant.
BackendInit ==
  /\ last_op.kind = "new"
  /\ IF backend = "postgresql"
       THEN /\ probes' = probes + 1
            /\ \/ \E answer \in BOOLEAN :
                    /\ has_pgvector' = answer
                    /\ txAborted' = txAborted
                    /\ last_op' = [NoOp EXCEPT !.kind = "init"]
               \/ /\ has_pgvector' = FALSE
                  /\ txAborted' = AfterUnrolledFailure
                  /\ last_op' = [NoOp EXCEPT !.kind = "init", !.ok = FALSE,
                                        !.error = "probe_failed"]
       ELSE /\ probes' = probes
            /\ has_pgvector' = FALSE
            /\ txAborted' = txAborted
            /\ last_op' = [NoOp EXCEPT !.kind = "init"]
  /\ UNCHANGED <<backend, table, callVars>>
  /\ UNCHANGED <<batchVars, connVars, chunkVars, sideVars>>

\* check_document_exists called on the backend
CheckExists(name) ==
  /\ Constructed
  /\ \/ /\ StatementCanSucceed
        /\ \E h \in HashesSeen(table, name) :
             last_op' = [NoOp EXCEPT !.kind = "check", !.name = name, !.before = table,
                                !.returned = h]
        /\ txAborted' = txAborted
     \/ /\ last_op' = [NoOp EXCEPT !.kind = "check", !.name = name, !.before = table,
                              !.returned = None, !.error = "swallowed"]
        /\ txAborted' = AfterUnrolledFailure
  /\ UNCHANGED <<backend, table, callVars, has_pgvector, probes>>
  /\ UNCHANGED <<batchVars, connVars, chunkVars, sideVars>>

\* delete_document_chunks called on the backend
DeleteChunks(name) ==
  /\ Constructed
  /\ \/ /\ DeleteSucceeds(name)
        /\ last_op' = [NoOp EXCEPT !.kind = "delete", !.name = name, !.before = table]
     \/ /\ DeleteFails
        /\ last_op' = [NoOp EXCEPT !.kind = "delete", !.name = name, !.before = table,
                              !.ok = FALSE, !.error = "raised"]
  /\ UNCHANGED <<backend, callVars, has_pgvector, probes>>
  /\ UNCHANGED <<batchVars, connVars, chunkVars, sideVars>>

\* an except branch that commits what the transaction had inserted
CommitWork(committed, work) == work

\* conn.rollback(): the rows are again the committed ones, whatever the
\* transaction had inserted
RollbackTo(committed, work) == committed

\* upload_chunks, except branch, when the insert of row k raised (k beyond the
\* list: the commit raised): the rows before it were inserted in the
\* transaction, then rollback and re-raise.  A Supabase insert request that
\* fails stores nothing either.
UploadFailsAt(records, k) ==
  /\ table' = RollbackTo(table, table \o SubSeq(records, 1, k - 1))
  /\ txAborted' = AfterCommitOrRollback

\* the chunks_with_embeddings lists handed to upload_chunks
UploadInputs ==
  { BuildRecords([k \in 1..Len(es) |-> <<"a">>], es, name,
                 calculate_file_hash(<<"a">>), 0) :
      name \in Names, es \in SeqsUpTo(Vectors, MaxRows) \ {<<>>} }

\* upload_chunks called on the backend
UploadChunks(records) ==
  /\ Constructed
  /\ Len(table) + Len(records) <= MaxRows
  /\ \/ /\ UploadSucceeds(records)
        /\ last_op' = [NoOp EXCEPT !.kind = "upload", !.records = records,
                              !.before = table]
     \/ \E k \in 1..(Len(records) + 1) :
          /\ UploadFailsAt(records, k)
          /\ last_op' = [NoOp EXCEPT !.kind = "upload", !.records = records,
                                !.before = table, !.ok = FALSE, !.error = "raised"]
  /\ UNCHANGED <<backend, callVars, has_pgvector, probes>>
  /\ UNCHANGED <<batchVars, connVars, chunkVars, sideVars>>

\* a search that re-runs the capability probe may meet either answer
SearchVariantsReprobed == BOOLEAN

\* "if self.has_pgvector": the variant a search call of the PostgreSQL backend uses
SearchVariants == {has_pgvector}

VariantName(v) == IF v THEN "native" ELSE "manual"

\* search_similar_chunks(query_embedding, table_name, limit) called on the
\* backend; an exception is re-raised (PostgreSQL: without rollback)
SearchSimilar(q, limit) ==
  /\ Constructed
  /\ \/ /\ backend = "supabase"
        /\ \E a \in PythonSearch(table, q, limit) :
             last_op' = [NoOp EXCEPT !.kind = "search", !.query = q, !.limit = limit,
                                !.before = table, !.ok = a.ok, !.error = a.error,
                                !.returned = a.rows, !.variant = "python"]
        /\ txAborted' = txAborted
     \/ /\ backend = "postgresql"
        /\ StatementCanSucceed
        /\ \E v \in SearchVariants :
           \E a \in (IF v THEN NativeSearch(table, q, limit)
                          ELSE ManualSearch(table, q, limit)) :
             /\ last_op' = [NoOp EXCEPT !.kind = "search", !.query = q, !.limit = limit,
                                   !.before = table, !.ok = a.ok, !.error = a.error,
                                   !.returned = a.rows, !.variant = VariantName(v)]
             /\ txAborted' = IF a.ok THEN txAborted ELSE AfterUnrolledFailure
     \/ /\ last_op' = [NoOp EXCEPT !.kind = "search", !.query = q, !.limit = limit,
                              !.before = table, !.ok = FALSE,
                              !.error = "statement_failed",
                              !.variant = IF backend = "postgresql"
                                            THEN VariantName(has_pgvector)
                                            ELSE "python"]
        /\ txAborted' = AfterUnrolledFailure
  /\ UNCHANGED <<backend, table, callVars, has_pgvector, probes>>
  /\ UNCHANGED <<batchVars, connVars, chunkVars, sideVars>>

\* the (document_name, chunk_count) pairs of get_all_documents
DocumentSummary(tbl) ==
  {<<name, Len(RowsOf(tbl, name))>> : name \in {n \in Names : RowsOf(tbl, n) # <<>>}}

\* get_all_documents called on the backend; an exception is re-raised
\* (PostgreSQL: without rollback)
ListDocuments ==
  /\ Constructed
  /\ \/ /\ StatementCanSucceed
        /\ last_op' = [NoOp EXCEPT !.kind = "list", !.before = table,
                              !.returned = DocumentSummary(table)]
        /\ txAborted' = txAborted
     \/ /\ last_op' = [NoOp EXCEPT !.kind = "list", !.before = table, !.ok = FALSE,
                              !.error = "statement_failed"]
        /\ txAborted' = AfterUnrolledFailure
  /\ UNCHANGED <<backend, table, callVars, has_pgvector, probes>>
  /\ UNCHANGED <<batchVars, connVars, chunkVars, sideVars>>

\* the document filter values of the search entry points ("": not given)
DocumentFilters == Names \cup {""}
\* the min_score values of the search entry points ("": not given)
MinScores == {"", "0.9"}

\* GET /api/search, POST /api/chat and the CLI's search command: after the
\* query's embedding they call storage.search_similar_chunks(query_embedding=,
\* table_name=, limit=, document_name=, min_score=).  Neither backend's method
\* has the last two parameters, so the call raises TypeError before any
\* statement is sent, whatever the query and the limit.
SearchEntry(document, min_score) ==
  /\ Constructed
  /\ last_op' = [NoOp EXCEPT !.kind = "search_entry", !.name = document,
                             !.before = table, !.ok = FALSE, !.error = "TypeError",
                             !.variant = min_score]
  /\ UNCHANGED <<backend, txAborted, table, callVars, has_pgvector, probes>>
  /\ UNCHANGED <<batchVars, connVars, chunkVars, sideVars>>

StoreNext ==
  \/ BackendInit
  \/ \E name \in Names : CheckExists(name)
  \/ \E name \in Names : DeleteChunks(name)
  \/ \E records \in UploadInputs : UploadChunks(records)
  \/ \E q \in Queries, limit \in 1..MaxLimit : SearchSimilar(q, limit)
  \/ ListDocuments
  \/ \E document \in DocumentFilters, min_score \in MinScores :
        SearchEntry(document, min_score)

\* ------------------------------------------- chunk_text, character strategy

\* longest text handed to chunk_text
MaxChunkText == 4
\* largest chunk_size and overlap handed to chunk_text
MaxChunkSize == 3
MaxChunkOverlap == 3
\* number of loop iterations followed before a run is left alone
MaxWindows == 6

ChunkIdle ==
  /\ cw_text = <<>>
  /\ cw_size = 1
  /\ cw_overlap = 0
  /\ cw_start = 0
  /\ cw_windows = <<>>
  /\ cw_chunks = <<>>
  /\ cw_pc = "returned"

\* chunk_text(text, chunk_size, overlap) is entered: chunks = [], start = 0
ChunkInit ==
  /\ cw_text \in SeqsUpTo(Chars, MaxChunkText)
  /\ cw_size \in 1..MaxChunkSize
  /\ cw_overlap \in 0..MaxChunkOverlap
  /\ cw_start = 0
  /\ cw_windows = <<>>
  /\ cw_chunks = <<>>
  /\ cw_pc = "loop"

\* an advance that leaves the character at index "end" out
NextStartGap(end, overlap) == end + 1

\* start = end - overlap
NextStart(end, overlap) == end - overlap

\* one iteration of "while start < len(text)"
ChunkLoop ==
  /\ cw_pc = "loop"
  /\ cw_start < Len(cw_text)
  /\ Len(cw_windows) < MaxWindows
  /\ cw_windows' = Append(cw_windows, <<cw_start, cw_start + cw_size>>)
  /\ cw_chunks' = Append(cw_chunks, Slice(cw_text, cw_start, cw_start + cw_size))
  /\ cw_start' = NextStart(cw_start + cw_size, cw_overlap)
  /\ UNCHANGED <<cw_text, cw_size, cw_overlap, cw_pc>>
  /\ UNCHANGED <<pipeVars, batchVars, storeVars, connVars, sideVars>>

\* the loop condition is false: strip, drop the empty chunks, return
ChunkReturn ==
  /\ cw_pc = "loop"
  /\ ~(cw_start < Len(cw_text))
  /\ cw_chunks' = StripNonEmpty(cw_chunks)
  /\ cw_pc' = "returned"
  /\ UNCHANGED <<cw_text, cw_size, cw_overlap, cw_start, cw_windows>>
  /\ UNCHANGED <<pipeVars, batchVars, storeVars, connVars, sideVars>>

ChunkNext ==
  \/ ChunkLoop
  \/ ChunkReturn

\* ------------------- two background tasks of the web layer, one connection

\* number of chunks each of the two uploaded documents has
MaxTaskRows == 2

Tasks == {1, 2}

ConnIdle ==
  /\ pending = <<>>
  /\ task = <<>>

\* the text of the file task t uploads: the two files differ
TaskText(t) == [k \in 1..t |-> "a"]

\* the chunks_with_embeddings list task t builds (processed_at: its own reading)
TaskRecords(t, name) ==
  BuildRecords([k \in 1..MaxTaskRows |-> TaskText(t)],
               [k \in 1..MaxTaskRows |-> ProviderEmbedding(TaskText(t))],
               name, calculate_file_hash(TaskText(t)), t)

\* what the table holds when the two uploads arrive: nothing, or an earlier
\* version of a document
StoredBefore ==
  {<<>>} \cup
  { BuildRecords(<<<<"a", " ", "a">>>>, <<ProviderEmbedding(<<"a", " ", "a">>)>>,
                 name, calculate_file_hash(<<"a", " ", "a">>), 0) : name \in Names }

\* startup_event builds one DocumentEmbedder with one PostgreSQLBackend, and
\* upload_document hands each upload to a background task that calls
\* process_document on it with the configured skip_if_exists
ConnInit ==
  /\ pending = table
  /\ \E skip \in BOOLEAN :
       task \in [Tasks -> { [name |-> name, skip |-> skip, pc |-> IF skip THEN "check" ELSE "insert",
                             k |-> 0, stage |-> ""] : name \in Names }]

TaskHash(t) == calculate_file_hash(TaskText(t))
TaskRows(t) == TaskRecords(t, task[t].name)

\* conn.commit(): makes the transaction's rows the committed ones; on a
\* transaction that a failed statement aborted the server rolls back instead
CommitTable == IF txAborted THEN table ELSE pending
CommitPending == IF txAborted THEN table ELSE pending

\* check_document_exists of task t; a failing query is swallowed as None
TaskCheck(t) ==
  /\ task[t].pc = "check"
  /\ IF txAborted
       THEN task' = [task EXCEPT ![t].pc = "insert"]
       ELSE \E h \in HashesSeen(pending, task[t].name) :
              task' = [task EXCEPT ![t].pc =
                         IF h = None THEN "insert"
                         ELSE IF h = TaskHash(t) THEN "skipped" ELSE "delete"]
  /\ UNCHANGED <<pending, backend, txAborted, table, callVars>>
  /\ UNCHANGED <<batchVars, storeVars, chunkVars, sideVars>>

\* delete_document_chunks of task t: cursor.execute(DELETE)
TaskDelete(t) ==
  /\ task[t].pc = "delete"
  /\ IF txAborted
       THEN /\ task' = [task EXCEPT ![t].pc = "rollback", ![t].stage = "delete"]
            /\ pending' = pending
       ELSE /\ task' = [task EXCEPT ![t].pc = "delete_commit"]
            /\ pending' = RowsWithout(pending, task[t].name)
  /\ UNCHANGED <<backend, txAborted, table, callVars>>
  /\ UNCHANGED <<batchVars, storeVars, chunkVars, sideVars>>

\* delete_document_chunks of task t: conn.commit()
TaskDeleteCommit(t) ==
  /\ task[t].pc = "delete_commit"
  /\ table' = CommitTable
  /\ pending' = CommitPending
  /\ txAborted' = AfterCommitOrRollback
  /\ task' = [task EXCEPT ![t].pc = "insert"]
  /\ UNCHANGED <<backend, callVars>>
  /\ UNCHANGED <<batchVars, storeVars, chunkVars, sideVars>>

\* upload_chunks of task t: executemany sends one INSERT per record; each is a
\* separate statement on the connection and may raise
TaskInsert(t) ==
  /\ task[t].pc = "insert"
  /\ task[t].k < Len(TaskRows(t))
  /\ \/ /\ ~txAborted
        /\ pending' = Append(pending, TaskRows(t)[task[t].k + 1])
        /\ task' = [task EXCEPT ![t].k = task[t].k + 1]
        /\ txAborted' = txAborted
     \/ /\ pending' = pending
        /\ task' = [task EXCEPT ![t].pc = "rollback", ![t].stage = "upload"]
        /\ txAborted' = TRUE
  /\ UNCHANGED <<backend, table, callVars>>
  /\ UNCHANGED <<batchVars, storeVars, chunkVars, sideVars>>

\* upload_chunks of task t: conn.commit() after the last INSERT
TaskCommit(t) ==
  /\ task[t].pc = "insert"
  /\ task[t].k = Len(TaskRows(t))
  /\ table' = CommitTable
  /\ pending' = CommitPending
  /\ txAborted' = AfterCommitOrRollback
  /\ task' = [task EXCEPT ![t].pc = "returned"]
  /\ UNCHANGED <<backend, callVars>>
  /\ UNCHANGED <<batchVars, storeVars, chunkVars, sideVars>>

\* the except branch of delete_document_chunks / upload_chunks of task t:
\* conn.rollback(), then the exception is re-raised
TaskRollback(t) ==
  /\ task[t].pc = "rollback"
  /\ pending' = RollbackTo(table, pending)
  /\ txAborted' = AfterCommitOrRollback
  /\ task' = [task EXCEPT ![t].pc = "raised"]
  /\ UNCHANGED <<backend, table, callVars>>
  /\ UNCHANGED <<batchVars, storeVars, chunkVars, sideVars>>

ConnNext ==
  \/ \E t \in Tasks : TaskCheck(t)
  \/ \E t \in Tasks : TaskDelete(t)
  \/ \E t \in Tasks : TaskDeleteCommit(t)
  \/ \E t \in Tasks : TaskInsert(t)
  \/ \E t \in Tasks : TaskCommit(t)
  \/ \E t \in Tasks : TaskRollback(t)

\* ------------------------------------------------------ _chunk_by_paragraph

\* longest text and largest max_chunk_size handed to _chunk_by_paragraph
MaxParaText == 5
MaxParaSize == 6

ParaChars == {"a", " ", "\n", "."}

ParaIdle ==
  /\ pa_text = <<>>
  /\ pa_max = 0
  /\ pa_paragraphs = <<>>
  /\ pa_next = 0
  /\ pa_chunks = <<>>
  /\ pa_current = <<>>
  /\ pa_size = 0
  /\ pa_members = <<>>
  /\ pa_origin = <<>>
  /\ pa_pc = "idle"

\* str.split(sep), left to right: cur is the piece being read
RECURSIVE SplitFrom(_, _, _)
SplitFrom(s, sep, cur) ==
  IF s = <<>> THEN <<cur>>
  ELSE IF Len(s) >= Len(sep) /\ SubSeq(s, 1, Len(sep)) = sep
    THEN <<cur>> \o SplitFrom(SubSeq(s, Len(sep) + 1, Len(s)), sep, <<>>)
    ELSE SplitFrom(Tail(s), sep, Append(cur, Head(s)))

Split(s, sep) == SplitFrom(s, sep, <<>>)

\* sep.join(parts)
RECURSIVE Join(_, _)
Join(parts, sep) ==
  IF parts = <<>> THEN <<>>
  ELSE IF Len(parts) = 1 THEN Head(parts)
  ELSE Head(parts) \o sep \o Join(Tail(parts), sep)

\* '\n' in para
HasNewline(para) == \E k \in 1..Len(para) : para[k] = "\n"

\* text.split('\n\n'), each piece stripped, the empty ones skipped
Paragraphs(text) == StripNonEmpty(Split(text, <<"\n", "\n">>))

\* [s.strip() + '.' for s in para.split('.') if s.strip()]
PeriodParts(para) ==
  LET kept == StripNonEmpty(Split(para, <<".">>))
  IN  [k \in 1..Len(kept) |-> Append(kept[k], ".")]

\* sub_parts of a paragraph larger than max_chunk_size
SubParts(para) ==
  IF HasNewline(para) THEN Split(para, <<"\n">>) ELSE PeriodParts(para)

\* "if temp_chunk: chunks.append(...)"
Flushed(temp_chunk) == IF temp_chunk # <<>> THEN <<temp_chunk>> ELSE <<>>

\* the loop over sub_parts and the flush after it: the temp_chunk lists that
\* are joined into sub-chunks, in order
RECURSIVE PackParts(_, _, _, _)
PackParts(parts, temp_chunk, temp_size, max_chunk_size) ==
  IF parts = <<>> THEN Flushed(temp_chunk)
  ELSE IF temp_size + Len(Head(parts)) + 1 <= max_chunk_size
    THEN PackParts(Tail(parts), Append(temp_chunk, Head(parts)),
                   temp_size + Len(Head(parts)) + 1, max_chunk_size)
    ELSE Flushed(temp_chunk)
           \o PackParts(Tail(parts), <<Head(parts)>>, Len(Head(parts)), max_chunk_size)

\* '\n'.join(temp_chunk) if '\n' in para else ' '.join(temp_chunk)
JoinParts(temp_chunk, para) ==
  IF HasNewline(para) THEN Join(temp_chunk, <<"\n">>) ELSE Join(temp_chunk, <<" ">>)

\* '\n\n'.join(current_chunk)
JoinParagraphs(current_chunk) == Join(current_chunk, <<"\n", "\n">>)

\* where a chunk came from: the indexes of the paragraphs joined into it, or
\* the fragments of the one large paragraph packed into it
Packed(members) == [split |-> FALSE, paras |-> members, parts |-> <<>>]
SubChunk(i, temp_chunk) == [split |-> TRUE, paras |-> <<i>>, parts |-> temp_chunk]

ParaInit ==
  /\ pa_text \in SeqsUpTo(ParaChars, MaxParaText)
  /\ pa_max \in 1..MaxParaSize
  /\ pa_paragraphs = Paragraphs(pa_text)
  /\ pa_next = 1
  /\ pa_chunks = <<>>
  /\ pa_current = <<>>
  /\ pa_size = 0
  /\ pa_members = <<>>
  /\ pa_origin = <<>>
  /\ pa_pc = "loop"

\* a current_chunk that stays the only holder of its paragraph
KeepOnly(current_chunk, para) == <<para>>

\* current_chunk.append(para)
AppendPara(current_chunk, para) == Append(current_chunk, para)

\* "if para_size > max_chunk_size": current chunk saved, the paragraph split
\* into sub_parts and packed into sub-chunks
ParaSplit ==
  /\ pa_pc = "loop"
  /\ pa_next <= Len(pa_paragraphs)
  /\ Len(pa_paragraphs[pa_next]) > pa_max
  /\ LET para == pa_paragraphs[pa_next]
         saved == pa_current # <<>>
         packs == PackParts(SubParts(para), <<>>, 0, pa_max)
     IN  /\ pa_chunks' = (IF saved THEN Append(pa_chunks, JoinParagraphs(pa_current))
                                   ELSE pa_chunks)
                           \o [k \in 1..Len(packs) |-> JoinParts(packs[k], para)]
         /\ pa_origin' = (IF saved THEN Append(pa_origin, Packed(pa_members))
                                   ELSE pa_origin)
                           \o [k \in 1..Len(packs) |-> SubChunk(pa_next, packs[k])]
         /\ pa_current' = IF saved THEN <<>> ELSE pa_current
         /\ pa_members' = IF saved THEN <<>> ELSE pa_members
         /\ pa_size' = IF saved THEN 0 ELSE pa_size
  /\ pa_next' = pa_next + 1
  /\ UNCHANGED <<pa_text, pa_max, pa_paragraphs, pa_pc>>
  /\ UNCHANGED notPara

\* "elif current_size + para_size + 2 > max_chunk_size": a new chunk starts
ParaClose ==
  /\ pa_pc = "loop"
  /\ pa_next <= Len(pa_paragraphs)
  /\ Len(pa_paragraphs[pa_next]) <= pa_max
  /\ pa_size + Len(pa_paragraphs[pa_next]) + 2 > pa_max
  /\ pa_chunks' = IF pa_current # <<>> THEN Append(pa_chunks, JoinParagraphs(pa_current))
                                        ELSE pa_chunks
  /\ pa_origin' = IF pa_current # <<>> THEN Append(pa_origin, Packed(pa_members))
                                        ELSE pa_origin
  /\ pa_current' = <<pa_paragraphs[pa_next]>>
  /\ pa_members' = <<pa_next>>
  /\ pa_size' = Len(pa_paragraphs[pa_next])
  /\ pa_next' = pa_next + 1
  /\ UNCHANGED <<pa_text, pa_max, pa_paragraphs, pa_pc>>
  /\ UNCHANGED notPara

\* else: the paragraph joins the current chunk
ParaAppend ==
  /\ pa_pc = "loop"
  /\ pa_next <= Len(pa_paragraphs)
  /\ Len(pa_paragraphs[pa_next]) <= pa_max
  /\ pa_size + Len(pa_paragraphs[pa_next]) + 2 <= pa_max
  /\ pa_current' = AppendPara(pa_current, pa_paragraphs[pa_next])
  /\ pa_members' = Append(pa_members, pa_next)
  /\ pa_size' = pa_size + Len(pa_paragraphs[pa_next]) + 2
  /\ pa_next' = pa_next + 1
  /\ UNCHANGED <<pa_text, pa_max, pa_paragraphs, pa_chunks, pa_origin, pa_pc>>
  /\ UNCHANGED notPara

\* after the loop: the last chunk is added, chunks returned
ParaReturn ==
  /\ pa_pc = "loop"
  /\ pa_next > Len(pa_paragraphs)
  /\ pa_chunks' = IF pa_current # <<>> THEN Append(pa_chunks, JoinParagraphs(pa_current))
                                        ELSE pa_chunks
  /\ pa_origin' = IF pa_current # <<>> THEN Append(pa_origin, Packed(pa_members))
                                        ELSE pa_origin
  /\ pa_pc' = "returned"
  /\ UNCHANGED <<pa_text, pa_max, pa_paragraphs, pa_next, pa_current, pa_size,
                 pa_members>>
  /\ UNCHANGED notPara

ParaNext ==
  \/ ParaSplit
  \/ ParaClose
  \/ ParaAppend
  \/ ParaReturn

\* ------------------------------------------------------- _chunk_by_semantic

\* largest number of sentences the splitter found in the text
MaxSentences == 3

\* the sentences _split_into_sentences can return (stripped, non-empty)
SentenceSet == {<<"A", ".">>, <<"B", "b", ".">>}

\* values of max_chunk_size
SemSizes == {2, 5, 8}

\* values of similarity_threshold, counted in halves: 0.5, 1.0, 2.0
Thresholds == {1, 2, 4}

\* the vectors the provider answers with; one has another dimension
SemVectors == {<<1, 0>>, <<1, 1>>, <<1>>}

SemIdle ==
  /\ se_sentences = <<>>
  /\ se_text = <<>>
  /\ se_max = 0
  /\ se_threshold = 0
  /\ se_embeddings = <<>>
  /\ se_valid = <<>>
  /\ se_i = 0
  /\ se_chunks = <<>>
  /\ se_current = <<>>
  /\ se_size = 0
  /\ se_pc = "idle"
  /\ se_error = ""
  /\ se_batch = "none"
  /\ se_given = <<>>
  /\ se_kept = <<>>
  /\ se_members = <<>>
  /\ se_origin = <<>>

\* similarity_threshold = max(0.0, min(1.0, similarity_threshold)), in halves
ClampThreshold(t) == IF t < 0 THEN 0 ELSE IF t > 2 THEN 2 ELSE t

\* the call has split the text into two or more sentences and is about to
\* embed them; the text is those sentences with one space between them
SemInit ==
  /\ se_sentences \in UNION {[1..n -> SentenceSet] : n \in 2..MaxSentences}
  /\ se_text = Join(se_sentences, <<" ">>)
  /\ se_max \in SemSizes
  /\ se_threshold \in Thresholds
  /\ se_embeddings = <<>>
  /\ se_valid = <<>>
  /\ se_i = 0
  /\ se_chunks = <<>>
  /\ se_current = <<>>
  /\ se_size = 0
  /\ se_pc = "embed"
  /\ se_error = ""
  /\ se_batch = "none"
  /\ se_given = <<>>
  /\ se_kept = <<>>
  /\ se_members = <<>>
  /\ se_origin = <<>>

\* the lists of vectors a batch response can hold: one vector per data item
BatchResponses == UNION {[1..k -> SemVectors] : k \in 1..(MaxSentences + 1)}

\* a response to n texts may hold one item fewer or more than n
ItemCounts(n) == (n - 1)..(n + 1)

\* get_embeddings_batch returned: embeddings is the response, valid_sentences
\* is sentences
SemBatchOk(response) ==
  /\ se_pc = "embed"
  /\ Len(response) \in ItemCounts(Len(se_sentences))
  /\ se_embeddings' = response
  /\ se_valid' = se_sentences
  /\ se_kept' = [k \in 1..Len(se_sentences) |-> k]
  /\ se_given' = response
  /\ se_batch' = "ok"
  /\ se_pc' = "group"
  /\ UNCHANGED <<se_sentences, se_text, se_max, se_threshold, se_i, se_chunks,
                 se_current, se_size, se_error, se_members, se_origin>>
  /\ UNCHANGED notSem

\* get_embeddings_batch raised: the except branch starts the loop over sentences
SemBatchFailed ==
  /\ se_pc = "embed"
  /\ se_embeddings' = <<>>
  /\ se_valid' = <<>>
  /\ se_kept' = <<>>
  /\ se_given' = <<>>
  /\ se_batch' = "failed"
  /\ se_i' = 1
  /\ se_pc' = "fallback"
  /\ UNCHANGED <<se_sentences, se_text, se_max, se_threshold, se_chunks,
                 se_current, se_size, se_error, se_members, se_origin>>
  /\ UNCHANGED notSem

\* a valid_sentences list that keeps a sentence whose embedding failed
KeepSentence(valid_sentences, sentence) == Append(valid_sentences, sentence)

\* "except Exception as sentence_error: continue": the sentence is left out
SkipSentence(valid_sentences, sentence) == valid_sentences

\* what get_embedding gave for a sentence it failed on
NoVector == <<>>

\* one iteration of the loop over sentences: get_embedding returned v
SemEmbedOneOk(v) ==
  /\ se_pc = "fallback"
  /\ se_i <= Len(se_sentences)
  /\ se_embeddings' = Append(se_embeddings, v)
  /\ se_valid' = Append(se_valid, se_sentences[se_i])
  /\ se_kept' = Append(se_kept, se_i)
  /\ se_given' = Append(se_given, v)
  /\ se_i' = se_i + 1
  /\ UNCHANGED <<se_sentences, se_text, se_max, se_threshold, se_chunks,
                 se_current, se_size, se_pc, se_error, se_batch, se_members,
                 se_origin>>
  /\ UNCHANGED notSem

\* one iteration of the loop over sentences: get_embedding raised
SemEmbedOneFailed ==
  /\ se_pc = "fallback"
  /\ se_i <= Len(se_sentences)
  /\ se_valid' = SkipSentence(se_valid, se_sentences[se_i])
  /\ se_given' = Append(se_given, NoVector)
  /\ se_i' = se_i + 1
  /\ UNCHANGED <<se_sentences, se_text, se_max, se_threshold, se_embeddings,
                 se_chunks, se_current, se_size, se_pc, se_error, se_batch,
                 se_kept, se_members, se_origin>>
  /\ UNCHANGED notSem

\* the loop over sentences has ended
SemFallbackDone ==
  /\ se_pc = "fallback"
  /\ se_i > Len(se_sentences)
  /\ se_pc' = "group"
  /\ UNCHANGED <<se_sentences, se_text, se_max, se_threshold, se_embeddings,
                 se_valid, se_i, se_chunks, se_current, se_size, se_error,
                 se_batch, se_given, se_kept, se_members, se_origin>>
  /\ UNCHANGED notSem

\* [text[i:i+max_chunk_size] for i in range(0, len(text), max_chunk_size)]
HardWindows(text, max_chunk_size) == CharacterWindows(text, 0, max_chunk_size, 0)

\* "if not valid_sentences": character chunking of the whole text is returned
SemNoValid ==
  /\ se_pc = "group"
  /\ se_valid = <<>>
  /\ se_chunks' = HardWindows(se_text, se_max)
  /\ se_pc' = "returned"
  /\ UNCHANGED <<se_sentences, se_text, se_max, se_threshold, se_embeddings,
                 se_valid, se_i, se_current, se_size, se_error, se_batch,
                 se_given, se_kept, se_members, se_origin>>
  /\ UNCHANGED notSem

\* Step 3 starts: current_chunk = [valid_sentences[0]]
SemStartGroups ==
  /\ se_pc = "group"
  /\ se_valid # <<>>
  /\ se_current' = <<se_valid[1]>>
  /\ se_members' = <<1>>
  /\ se_size' = Len(se_valid[1])
  /\ se_i' = 1
  /\ se_pc' = "merge"
  /\ UNCHANGED <<se_sentences, se_text, se_max, se_threshold, se_embeddings,
                 se_valid, se_chunks, se_error, se_batch, se_given, se_kept,
                 se_origin>>
  /\ UNCHANGED notSem

\* embeddings[i-1] and embeddings[i] exist for the 0-based index i of the loop
HasBoth(es, i) == i + 1 <= Len(es)

\* _calculate_cosine_similarity raises ValueError for vectors of unequal length
SameLength(vec1, vec2) == Len(vec1) = Len(vec2)

\* _calculate_cosine_similarity for vectors of equal length: 0.0 when a
\* magnitude is zero, else dot / (magnitude1 * magnitude2)
CosineSimilarity(vec1, vec2) == CosinePython(vec1, vec2)

\* a comparison that takes an equal similarity for not enough
SimilarStrictly(vec1, vec2, threshold) ==
  ~NumberGeq(Ratio(ClampThreshold(threshold), 4), CosineSimilarity(vec1, vec2))

\* similarity >= similarity_threshold, the threshold clamped and in halves
SimilarEnough(vec1, vec2, threshold) ==
  NumberGeq(CosineSimilarity(vec1, vec2), Ratio(ClampThreshold(threshold), 4))

\* would_exceed = current_size + sentence_size + 1 > max_chunk_size
WouldExceed(current_size, sentence_size, max_chunk_size) ==
  current_size + sentence_size + 1 > max_chunk_size

\* "if similarity >= similarity_threshold and not would_exceed"
Merges(i) ==
  /\ SimilarEnough(se_embeddings[i], se_embeddings[i + 1], se_threshold)
  /\ ~WouldExceed(se_size, Len(se_valid[i + 1]), se_max)

\* the loop body can compute the similarity of sentence i+1 with sentence i
CanCompare(i) ==
  /\ HasBoth(se_embeddings, i)
  /\ SameLength(se_embeddings[i], se_embeddings[i + 1])

\* ' '.join(current_chunk)
JoinSentences(current_chunk) == Join(current_chunk, <<" ">>)

\* loop body, merge branch: the sentence joins the current chunk
SemMerge ==
  /\ se_pc = "merge"
  /\ se_i < Len(se_valid)
  /\ CanCompare(se_i)
  /\ Merges(se_i)
  /\ se_current' = Append(se_current, se_valid[se_i + 1])
  /\ se_members' = Append(se_members, se_i + 1)
  /\ se_size' = se_size + Len(se_valid[se_i + 1]) + 1
  /\ se_i' = se_i + 1
  /\ UNCHANGED <<se_sentences, se_text, se_max, se_threshold, se_embeddings,
                 se_valid, se_chunks, se_pc, se_error, se_batch, se_given,
                 se_kept, se_origin>>
  /\ UNCHANGED notSem

\* loop body, else branch: the current chunk is saved, a new one starts
SemClose ==
  /\ se_pc = "merge"
  /\ se_i < Len(se_valid)
  /\ CanCompare(se_i)
  /\ ~Merges(se_i)
  /\ se_chunks' = Append(se_chunks, JoinSentences(se_current))
  /\ se_origin' = Append(se_origin, se_members)
  /\ se_current' = <<se_valid[se_i + 1]>>
  /\ se_members' = <<se_i + 1>>
  /\ se_size' = Len(se_valid[se_i + 1])
  /\ se_i' = se_i + 1
  /\ UNCHANGED <<se_sentences, se_text, se_max, se_threshold, se_embeddings,
                 se_valid, se_pc, se_error, se_batch, se_given, se_kept>>
  /\ UNCHANGED notSem

\* loop body: embeddings[i] is out of range (IndexError), or the two vectors
\* differ in length (ValueError); the exception leaves _chunk_by_semantic
SemRaise ==
  /\ se_pc = "merge"
  /\ se_i < Len(se_valid)
  /\ ~CanCompare(se_i)
  /\ se_error' = IF HasBoth(se_embeddings, se_i) THEN "ValueError" ELSE "IndexError"
  /\ se_pc' = "raised"
  /\ UNCHANGED <<se_sentences, se_text, se_max, se_threshold, se_embeddings,
                 se_valid, se_i, se_chunks, se_current, se_size, se_batch,
                 se_given, se_kept, se_members, se_origin>>
  /\ UNCHANGED notSem

\* after the loop: the last chunk is added, chunks returned
SemReturn ==
  /\ se_pc = "merge"
  /\ se_i >= Len(se_valid)
  /\ se_chunks' = Append(se_chunks, JoinSentences(se_current))
  /\ se_origin' = Append(se_origin, se_members)
  /\ se_pc' = "returned"
  /\ UNCHANGED <<se_sentences, se_text, se_max, se_threshold, se_embeddings,
                 se_valid, se_i, se_current, se_size, se_error, se_batch,
                 se_given, se_kept, se_members>>
  /\ UNCHANGED notSem

SemNext ==
  \/ \E response \in BatchResponses : SemBatchOk(response)
  \/ SemBatchFailed
  \/ \E v \in SemVectors : SemEmbedOneOk(v)
  \/ SemEmbedOneFailed
  \/ SemFallbackDone
  \/ SemNoValid
  \/ SemStartGroups
  \/ SemMerge
  \/ SemClose
  \/ SemRaise
  \/ SemReturn

\* ------------------------------------------- in-process cosine similarity

\* largest number of components of a vector handed to a cosine computation
MaxDim == 2

Components == {-1, 0, 1}

\* the non-empty vectors of up to MaxDim components
DimVectors == UNION {[1..n -> Components] : n \in 1..MaxDim}

NoScore == [kind |-> "none", by |-> "", value |-> NaN]

CosIdle ==
  /\ co_vec1 = <<>>
  /\ co_vec2 = <<>>
  /\ co_out = NoScore

\* two vectors are about to be compared
CosInit ==
  /\ co_vec1 \in DimVectors
  /\ co_vec2 \in DimVectors
  /\ co_out = NoScore

\* DocumentEmbedder._calculate_cosine_similarity(vec1, vec2)
CalculateCosineSimilarity ==
  /\ co_out = NoScore
  /\ co_out' = IF SameLength(co_vec1, co_vec2)
                 THEN [kind |-> "score", by |-> "embedder",
                       value |-> CosineSimilarity(co_vec1, co_vec2)]
                 ELSE [kind |-> "ValueError", by |-> "embedder", value |-> NaN]
  /\ UNCHANGED <<co_vec1, co_vec2>>
  /\ UNCHANGED notCos

\* SupabaseBackend.search_similar_chunks, the similarity of one fetched row:
\* query_emb = vec1, doc_embedding = vec2; the dot product runs over zip, the
\* magnitudes over each whole vector
SearchRowSimilarity ==
  /\ co_out = NoScore
  /\ co_out' = [kind |-> "score", by |-> "search",
                value |-> CosinePython(co_vec1, co_vec2)]
  /\ UNCHANGED <<co_vec1, co_vec2>>
  /\ UNCHANGED notCos

CosNext ==
  \/ CalculateCosineSimilarity
  \/ SearchRowSimilarity

\* -------------------------------------------------- web layer: upload tasks

\* number of uploads (task ids issued) and largest chunks_created of a result
MaxTasks == 2
MaxCreated == 1

TaskIds == 1..MaxTasks

\* the stages process_document reports through progress_callback, in order
Stages == <<"reading", "chunking", "embedding", "uploading">>

\* str(e) of the exceptions process_document can raise
ErrorTexts == {"read failed", "storage failed"}

\* what process_document can return
ProcessResults ==
  {[skipped |-> TRUE, chunks_created |-> 0]}
    \cup {[skipped |-> FALSE, chunks_created |-> n] : n \in 0..MaxCreated}

NoOutcome == [kind |-> "none", value |-> None, error |-> ""]

WebIdle ==
  /\ tasks_store = <<>>
  /\ uploads = {}
  /\ aged = {}
  /\ bg = <<>>
  /\ bg_outcome = <<>>

\* the application has started: no task yet, the upload directory is empty
WebInit ==
  /\ tasks_store = [t \in {} |-> None]
  /\ uploads = {}
  /\ aged = {}
  /\ bg = [t \in TaskIds |-> "none"]
  /\ bg_outcome = [t \in TaskIds |-> NoOutcome]

\* the entry upload_document puts into tasks_store
NewTask ==
  [status |-> "processing", stage |-> "queued", result |-> None, error |-> None]

\* a cleanup that removes every old task, whatever its status
RemovableWhenOld(task_data, old) == old

\* cleanup_old_tasks removes a task that is completed or failed and whose
\* created_at lies more than TASK_CLEANUP_HOURS back
Removable(task_data, old) == task_data.status \in {"completed", "failed"} /\ old

\* tasks_store after cleanup_old_tasks
CleanedUp(store) ==
  LET kept == {t \in DOMAIN store : ~Removable(store[t], t \in aged)}
  IN  [t \in kept |-> store[t]]

\* POST /api/documents/upload: file saved under the task id, task entered as
\* processing, background task queued, old tasks cleaned up
UploadDocument(t) ==
  /\ bg[t] = "none"
  /\ \A u \in TaskIds : u < t => bg[u] # "none"
  /\ uploads' = uploads \cup {t}
  /\ tasks_store' = CleanedUp([u \in DOMAIN tasks_store \cup {t} |->
                                 IF u = t THEN NewTask ELSE tasks_store[u]])
  /\ bg' = [bg EXCEPT ![t] = "queued"]
  /\ UNCHANGED <<aged, bg_outcome>>
  /\ UNCHANGED notWeb

\* _update_progress: status and stage written if the task is in the store
UpdateProgress(store, t, stage) ==
  IF t \in DOMAIN store
    THEN [store EXCEPT ![t].status = "processing", ![t].stage = stage]
    ELSE store

\* _update_completed
UpdateCompleted(store, t, value) ==
  IF t \in DOMAIN store
    THEN [store EXCEPT ![t].status = "completed", ![t].result = value,
                       ![t].stage = "completed"]
    ELSE store

\* _update_failed
UpdateFailed(store, t, error) ==
  IF t \in DOMAIN store
    THEN [store EXCEPT ![t].status = "failed", ![t].error = error,
                       ![t].stage = "failed"]
    ELSE store

\* process_document_with_progress starts: _update_progress(task_id, "reading")
BackgroundStart(t) ==
  /\ bg[t] = "queued"
  /\ tasks_store' = UpdateProgress(tasks_store, t, "reading")
  /\ bg' = [bg EXCEPT ![t] = "running"]
  /\ UNCHANGED <<uploads, aged, bg_outcome>>
  /\ UNCHANGED notWeb

\* the stage that follows stage s in Stages, or s when it is the last
StageAfter(s) ==
  IF \E k \in 1..(Len(Stages) - 1) : Stages[k] = s
    THEN Stages[(CHOOSE k \in 1..(Len(Stages) - 1) : Stages[k] = s) + 1]
    ELSE s

\* process_document calls progress_callback with its next stage
ProgressCallback(t) ==
  /\ bg[t] = "running"
  /\ t \in DOMAIN tasks_store
  /\ tasks_store[t].stage # StageAfter(tasks_store[t].stage)
  /\ tasks_store' = UpdateProgress(tasks_store, t, StageAfter(tasks_store[t].stage))
  /\ UNCHANGED <<uploads, aged, bg, bg_outcome>>
  /\ UNCHANGED notWeb

\* process_document returned: the skipped result before any stage was
\* reported, the other results after the upload; _update_completed
ProcessReturned(t, value) ==
  /\ bg[t] = "running"
  /\ t \in DOMAIN tasks_store
  /\ tasks_store[t].stage = IF value.skipped THEN "reading" ELSE "uploading"
  /\ tasks_store' = UpdateCompleted(tasks_store, t, value)
  /\ bg_outcome' = [bg_outcome EXCEPT ![t] =
                      [kind |-> "returned", value |-> value, error |-> ""]]
  /\ bg' = [bg EXCEPT ![t] = "finally"]
  /\ UNCHANGED <<uploads, aged>>
  /\ UNCHANGED notWeb

\* process_document raised: _update_failed(task_id, str(e)), then re-raised
ProcessRaised(t, error) ==
  /\ bg[t] = "running"
  /\ tasks_store' = UpdateFailed(tasks_store, t, error)
  /\ bg_outcome' = [bg_outcome EXCEPT ![t] =
                      [kind |-> "raised", value |-> None, error |-> error]]
  /\ bg' = [bg EXCEPT ![t] = "finally"]
  /\ UNCHANGED <<uploads, aged>>
  /\ UNCHANGED notWeb

\* finally: os.remove(file_path) if the file exists
RemoveUpload(t) ==
  /\ bg[t] = "finally"
  /\ uploads' = uploads \ {t}
  /\ bg' = [bg EXCEPT ![t] = "ended"]
  /\ UNCHANGED <<tasks_store, aged, bg_outcome>>
  /\ UNCHANGED notWeb

\* an hour has passed since task t was created
HourPasses(t) ==
  /\ bg[t] # "none"
  /\ t \notin aged
  /\ aged' = aged \cup {t}
  /\ UNCHANGED <<tasks_store, uploads, bg, bg_outcome>>
  /\ UNCHANGED notWeb

WebNext ==
  \/ \E t \in TaskIds : UploadDocument(t)
  \/ \E t \in TaskIds : BackgroundStart(t)
  \/ \E t \in TaskIds : ProgressCallback(t)
  \/ \E t \in TaskIds : \E value \in ProcessResults : ProcessReturned(t, value)
  \/ \E t \in TaskIds : \E error \in ErrorTexts : ProcessRaised(t, error)
  \/ \E t \in TaskIds : RemoveUpload(t)
  \/ \E t \in TaskIds : HourPasses(t)

\* ---------------------------------------------------------- cli: cmd_embed

\* largest number of files handed to one "embed" command
MaxFiles == 4

\* Python values the loop of cmd_embed compares
PyStr(text) == [type |-> "str", text |-> text]
PyDict(skipped, chunks_created) ==
  [type |-> "dict", skipped |-> skipped, chunks_created |-> chunks_created]

\* a == b for two Python values: values of different types are never equal
PyEq(a, b) == a.type = b.type /\ a = b

\* how process_document can end for one file: the skipped result, a result
\* with chunks uploaded, FileNotFoundError, another exception
FileOutcomes ==
  {[kind |-> "returned", value |-> PyDict(TRUE, 0)],
   [kind |-> "returned", value |-> PyDict(FALSE, 1)],
   [kind |-> "FileNotFoundError", value |-> PyDict(FALSE, 0)],
   [kind |-> "Exception", value |-> PyDict(FALSE, 0)]}

CliIdle ==
  /\ cli_files = 0
  /\ cli_seen = <<>>
  /\ cli_results = [processed |-> 0, skipped |-> 0, failed |-> 0]
  /\ cli_pc = "idle"

\* cmd_embed has its list of file_paths and results = all zero
CliInit ==
  /\ cli_files \in 1..MaxFiles
  /\ cli_seen = <<>>
  /\ cli_results = [processed |-> 0, skipped |-> 0, failed |-> 0]
  /\ cli_pc = "loop"

\* a test of the result's own skipped entry
ReportsSkipped(value) == value.type = "dict" /\ value.skipped

\* result == "skipped"
IsSkipped(value) == PyEq(value, PyStr("skipped"))

\* the counter one loop iteration adds to
Counted(outcome) ==
  IF outcome.kind = "returned"
    THEN (IF IsSkipped(outcome.value) THEN "skipped" ELSE "processed")
    ELSE "failed"

\* one iteration of "for file_path in file_paths": process_document ends with
\* outcome, one counter goes up
EmbedFile(outcome) ==
  /\ cli_pc = "loop"
  /\ Len(cli_seen) < cli_files
  /\ cli_seen' = Append(cli_seen, outcome)
  /\ cli_results' = [cli_results EXCEPT ![Counted(outcome)] = @ + 1]
  /\ UNCHANGED <<cli_files, cli_pc>>
  /\ UNCHANGED notCli

\* after the loop: the summary is printed
PrintSummary ==
  /\ cli_pc = "loop"
  /\ Len(cli_seen) = cli_files
  /\ cli_pc' = "summary"
  /\ UNCHANGED <<cli_files, cli_seen, cli_results>>
  /\ UNCHANGED notCli

CliNext ==
  \/ \E outcome \in FileOutcomes : EmbedFile(outcome)
  \/ PrintSummary

\* no side call is under way
SideIdle == ParaIdle /\ SemIdle /\ CosIdle /\ WebIdle /\ CliIdle

Init == PipeInit /\ BatchIdle /\ StoreIdle /\ ConnIdle /\ ChunkIdle /\ SideIdle
Next == PipeNext
\* the ingestion pipeline, one process_document call at a time
Spec == Init /\ [][Next]_vars

NextAnyCount == PipeNext \/ ProcessEmbedBatchMiscounted
\* the ingestion pipeline with a provider whose batch response may hold one
\* item fewer or more than texts were sent
SpecAnyCount == Init /\ [][NextAnyCount]_vars

InitBatch ==
  PipeInit /\ backend = "postgresql" /\ BatchInit /\ StoreIdle /\ ConnIdle /\ ChunkIdle
    /\ SideIdle
NextBatch == BatchNext
\* one get_embeddings_batch call with its thread pool
SpecBatch == InitBatch /\ [][NextBatch]_vars

InitStore == PipeInit /\ BatchIdle /\ StoreInit /\ ConnIdle /\ ChunkIdle /\ SideIdle
NextStore == StoreNext
\* one storage backend object, from its construction on, called by one caller
SpecStore == InitStore /\ [][NextStore]_vars

\* the pipeline's initial state but for the table, which holds StoredBefore rows
PipeInitStored ==
  /\ backend = "postgresql"
  /\ txAborted = FALSE
  /\ table \in StoredBefore
  /\ clock = 0
  /\ pc = "idle"
  /\ call = NoCall
  /\ existing_hash = None
  /\ chunks = <<>>
  /\ embeddings = <<>>
  /\ processed_at = 0
  /\ log = <<>>
  /\ result = NoResult
  /\ snap = <<>>
  /\ prev = NoSummary

InitConn == PipeInitStored /\ BatchIdle /\ StoreIdle /\ ConnInit /\ ChunkIdle /\ SideIdle
NextConn == ConnNext
\* two concurrent uploads of the web layer sharing the backend's connection
SpecConn == InitConn /\ [][NextConn]_vars

InitChunk ==
  PipeInit /\ backend = "postgresql" /\ BatchIdle /\ StoreIdle /\ ConnIdle /\ ChunkInit
    /\ SideIdle
NextChunk == ChunkNext
\* one chunk_text call with the character strategy
SpecChunk == InitChunk /\ [][NextChunk]_vars

\* the pipeline and its collaborators at rest, while a side call is modelled
CoreIdle ==
  PipeInit /\ backend = "postgresql" /\ BatchIdle /\ StoreIdle /\ ConnIdle /\ ChunkIdle

InitPara == CoreIdle /\ ParaInit /\ SemIdle /\ CosIdle /\ WebIdle /\ CliIdle
NextPara == ParaNext
\* one _chunk_by_paragraph call
SpecPara == InitPara /\ [][NextPara]_vars

InitSem == CoreIdle /\ ParaIdle /\ SemInit /\ CosIdle /\ WebIdle /\ CliIdle
NextSem == SemNext
\* one _chunk_by_semantic call on a text of two or more sentences
SpecSem == InitSem /\ [][NextSem]_vars

InitCos == CoreIdle /\ ParaIdle /\ SemIdle /\ CosInit /\ WebIdle /\ CliIdle
NextCos == CosNext
\* one cosine computation, by the embedder or by the search over fetched rows
SpecCos == InitCos /\ [][NextCos]_vars

InitWeb == CoreIdle /\ ParaIdle /\ SemIdle /\ CosIdle /\ WebInit /\ CliIdle
NextWeb == WebNext
\* the uploads of the web layer and their background tasks
SpecWeb == InitWeb /\ [][NextWeb]_vars

InitCli == CoreIdle /\ ParaIdle /\ SemIdle /\ CosIdle /\ WebIdle /\ CliInit
NextCli == CliNext
\* one run of cmd_embed over its files
SpecCli == InitCli /\ [][NextCli]_vars

\* ------------------------------------------------- claims on the pipeline

\* the current process_document call has ended (returned or raised)
CallEnded == pc = "idle" /\ result.kind # "none"

\* the rows this run hands to upload_chunks when every chunk has its embedding
RunRecords ==
  BuildRecords(chunks, [i \in 1..Len(chunks) |-> ProviderEmbedding(chunks[i])],
               call.name, call.hash, processed_at)

\* every row stored for the name when the call started carried hash h
StoredWith(name, h) ==
  /\ RowsOf(snap, name) # <<>>
  /\ \A i \in 1..Len(RowsOf(snap, name)) : RowsOf(snap, name)[i].file_hash = h

\* C1: process called twice in a row with the same name, the same hash and
\* skip_if_exists=True uploads exactly once: the second call returns
\* skipped=True with chunks_created=0 and leaves the rows of that name as they were.
\* (Stated for a first call that stored at least one row; a document without
\* any chunk leaves nothing behind that a second call could recognise.)
C1_IdempotentIngestion ==
  (CallEnded /\ prev.repeat /\ RowsOf(snap, call.name) # <<>>) =>
     /\ result = Returned(TRUE, 0)
     /\ prev.uploads + CountOp(log, "upload") = 1
     /\ RowsOf(table, call.name) = RowsOf(snap, call.name)

\* C2: a name stored with hash H1, re-ingested with another hash H2 and
\* skip_if_exists=True, successfully: the rows stored for the name are then
\* exactly the rows of the second run, all carrying H2 and none H1.
C2_HashChangeReplace ==
  (/\ CallEnded /\ call.skip
   /\ result.kind = "returned" /\ ~result.skipped
   /\ \E i \in 1..Len(snap) : /\ snap[i].document_name = call.name
                              /\ snap[i].file_hash # call.hash
                              /\ StoredWith(call.name, snap[i].file_hash))
  => /\ RowsOf(table, call.name) = RunRecords
     /\ \A i \in 1..Len(RowsOf(table, call.name)) :
          RowsOf(table, call.name)[i].file_hash = call.hash

\* C3: a process call for a name that is already stored and that ends in a
\* propagated failure leaves the rows of that name exactly as they were before
\* the call.
C3_FailedReingestKeepsOld ==
  (CallEnded /\ result.kind = "raised" /\ RowsOf(snap, call.name) # <<>>)
  => RowsOf(table, call.name) = RowsOf(snap, call.name)

\* C4: in every process call that goes on to upload, for either value of
\* skip_if_exists, rows stored for the name with another hash have been deleted
\* by the time the new rows are inserted: no row of an earlier run is left next
\* to the new ones.
C4_ReplaceNeverAppend ==
  (pc = "upload") =>
     \A i \in 1..Len(RowsOf(table, call.name)) :
        RowsOf(table, call.name)[i].file_hash = call.hash

\* the chunk_index values of a row sequence are 1..n, each once
IndexesContiguous(rows) ==
  \A k \in 1..Len(rows) :
     Cardinality({i \in 1..Len(rows) : rows[i].chunk_index = k}) = 1

\* C5: between calls, for every document name, the stored rows all carry the
\* same file_hash and the same processed_at, and their chunk_index values are
\* exactly 1..n without gap or duplicate.
C5_StoredDocumentInvariant ==
  (pc = "idle") =>
     \A name \in Names :
        /\ \A i, j \in 1..Len(RowsOf(table, name)) :
              /\ RowsOf(table, name)[i].file_hash = RowsOf(table, name)[j].file_hash
              /\ RowsOf(table, name)[i].processed_at = RowsOf(table, name)[j].processed_at
        /\ IndexesContiguous(RowsOf(table, name))

\* C6: with skip_if_exists=True and the hash stored for the name equal to the
\* file's hash, process returns skipped with zero chunks and does nothing but
\* the existence check: no read, no chunking, no embedding request, no delete,
\* no upload, and the table is unchanged.
C6_SkipDoesNoWork ==
  (call.skip /\ StoredWith(call.name, call.hash)) =>
     /\ \A i \in 1..Len(log) : log[i] = "check"
     /\ table = snap
     /\ CallEnded => result = Returned(TRUE, 0)

\* C10: a failed batch embedding call is followed by per-chunk embedding in
\* chunk order, not by an abort; when every per-chunk embedding succeeds the
\* run uploads one record per chunk, and when one fails the exception leaves
\* process_document and upload_chunks is not called in that run.
C10_EmbeddingFallback ==
  /\ (pc = "fallback" \/ Did("embed_one")) => Did("embed_batch")
  /\ (pc = "fallback") =>
        /\ Len(embeddings) = CountOp(log, "embed_one")
        /\ Len(embeddings) <= Len(chunks)
        /\ \A i \in 1..Len(embeddings) : embeddings[i] = ProviderEmbedding(chunks[i])
  /\ (result = Raised("embedding")) => (Did("embed_one") /\ ~Did("upload"))
  /\ (Did("embed_one") /\ (pc = "upload" \/ Did("upload"))) =>
        /\ CountOp(log, "embed_one") = Len(chunks)
        /\ Len(BuildRecords(chunks, embeddings, call.name, call.hash, processed_at))
             = Len(chunks)
        /\ BuildRecords(chunks, embeddings, call.name, call.hash, processed_at)
             = RunRecords
  /\ (Did("embed_one") /\ result.kind = "returned") =>
        /\ result = Returned(FALSE, Len(chunks))
        /\ Len(table) >= Len(chunks)
        /\ SubSeq(table, Len(table) - Len(chunks) + 1, Len(table)) = RunRecords

\* the batch call failed, both chunks were then embedded one by one, and the
\* document was uploaded with its two chunks
C10_Witness ==
  /\ CallEnded
  /\ CountOp(log, "embed_one") = 2
  /\ result = Returned(FALSE, 2)
  /\ RowsOf(table, call.name) = RunRecords



\* --------------------------------------------- claims on get_embeddings_batch

\* the call got past the empty-input and blank-text checks
Validated == texts # <<>> /\ \A k \in 1..Len(texts) : ~IsBlank(texts[k])

BatchEnded == bpc \in {"returned", "raised"}

\* C7: whatever the order in which the batch requests complete, the returned
\* list holds at position k the vector of texts[k]: it equals the list of the
\* vectors obtained by embedding each text on its own, in input order.
C7_BatchOrder ==
  (bpc = "returned") =>
     out = [k \in 1..Len(texts) |-> ProviderEmbedding(texts[k])]

\* three or more batches were collected out of index order and the call returned
C7_Witness ==
  /\ bpc = "returned"
  /\ total_batches >= 3
  /\ \E k \in 1..(Len(results) - 1) : results[k][1] > results[k + 1][1]

\* C8: when the request of any batch fails, the call raises and returns no
\* vectors; a returned list is never partial or shortened.
C8_BatchAllOrNothing ==
  /\ (BatchEnded /\ \E i \in BatchIds : future[i] = "failed") =>
        (bpc = "raised" /\ out = None)
  /\ (bpc = "returned") => Len(out) = Len(texts)

\* a batch failed after the vectors of another batch had been collected, and
\* the call raised
C8_Witness ==
  /\ bpc = "raised"
  /\ total_batches >= 3
  /\ results # <<>>
  /\ \E i \in BatchIds : future[i] = "failed" /\ i < results[1][1]

\* the limit the documentation of get_embeddings_batch states: the argument,
\* else the environment's value, else 4
StatedLimit ==
  IF workers_arg # Unset THEN workers_arg
  ELSE IF workers_env # Unset THEN workers_env ELSE 4

\* C9: at every moment of a call with several batches at most max_workers
\* requests are in flight (4 when the argument is None and the environment
\* variable is not set), and every batch is sent to the provider exactly once.
C9_BoundedFanOut ==
  /\ InFlight <= StatedLimit
  /\ \A i \in BatchIds : dispatches[i] <= 1
  /\ (BatchEnded /\ Validated) => \A i \in BatchIds : dispatches[i] = 1

\* neither argument nor environment give a limit, four requests are in flight
\* and a fifth batch waits in the queue
C9_Witness ==
  /\ workers_arg = Unset /\ workers_env = Unset
  /\ InFlight = 4
  /\ \E i \in BatchIds : future[i] = "queued"

\* ----------------------------------------- claims on the storage backend

\* similarity a is a number, b is one, and a >= b
SimGeq(a, b) == a.kind = "number" /\ b.kind = "number" /\ NumberGeq(a, b)

\* result row r is the row tbl[i]
IsRow(r, tbl, i) ==
  /\ r.content = tbl[i].content
  /\ r.document_name = tbl[i].document_name
  /\ r.chunk_index = tbl[i].chunk_index

\* C11: a search_similar_chunks call that reaches the table returns
\* min(limit, number of stored rows) entries, ordered by non-increasing
\* similarity, and no row left out has a higher cosine similarity to the query
\* than a returned one.
C11_SearchRanking ==
  (last_op.kind = "search" /\ last_op.error # "statement_failed") =>
     /\ last_op.ok
     /\ Len(last_op.returned) = Min(last_op.limit, Len(last_op.before))
     /\ \A i \in 1..Len(last_op.returned) : last_op.returned[i].similarity.kind = "number"
     /\ \A i \in 1..(Len(last_op.returned) - 1) :
           SimGeq(last_op.returned[i].similarity, last_op.returned[i + 1].similarity)
     /\ \E p \in Arrangements(Len(last_op.before)) :
           /\ \A i \in 1..Len(last_op.returned) :
                 IsRow(last_op.returned[i], last_op.before, p[i])
           /\ \A i \in 1..Len(last_op.returned) :
              \A j \in (Len(last_op.returned) + 1)..Len(last_op.before) :
                 SimGeq(last_op.returned[i].similarity,
                        CosinePython(last_op.query, last_op.before[p[j]].embedding))

\* C12: a search made through an entry point (HTTP search or chat, CLI search)
\* with a document filter and a minimum score reaches the backend and yields a
\* result: only rows of that document, at most limit of them, none below the
\* minimum score.
C12_SearchFiltering ==
  (last_op.kind = "search_entry") =>
     /\ last_op.ok
     /\ (last_op.name # "") =>
           \A i \in 1..Len(last_op.returned) :
              last_op.returned[i].document_name = last_op.name

\* C13: for every table, query embedding and limit the has_pgvector branch and
\* the REAL[] branch of PostgreSQLBackend.search_similar_chunks can return the
\* same results: the same rows in the same order with the same similarity,
\* the cosine of query and row embedding.
C13_SearchVariantsAgree ==
  (last_op.kind = "search" /\ backend = "postgresql") =>
     /\ NativeSearch(last_op.before, last_op.query, last_op.limit)
          = ManualSearch(last_op.before, last_op.query, last_op.limit)
     /\ \A a \in NativeSearch(last_op.before, last_op.query, last_op.limit) :
           \A i \in 1..Len(a.rows) : a.rows[i].similarity.kind = "number"

\* what holds of the variant in every state
VariantState ==
  /\ probes <= 1
  /\ (Constructed /\ backend = "postgresql") => probes = 1
  /\ (last_op.kind = "init" /\ ~last_op.ok) => ~has_pgvector
  /\ (last_op.kind = "search" /\ backend = "postgresql") =>
        last_op.variant = VariantName(has_pgvector)

\* what holds of it in every step of a constructed backend
VariantStep == Constructed => (has_pgvector' = has_pgvector /\ probes' = probes)

\* C14: has_pgvector is set by the one probe that __init__ runs (False when the
\* probe fails); no later check, delete, upload, search or list call changes it
\* or probes again, and every search takes the branch it names.
C14_VariantChosenOnce == [](VariantState) /\ [][VariantStep]_vars

\* after an upload, a search on a backend with pgvector took the native branch
C14_Witness ==
  /\ last_op.kind = "search" /\ last_op.ok
  /\ backend = "postgresql" /\ has_pgvector
  /\ last_op.variant = "native"
  /\ last_op.before # <<>>

\* C15: after a successful delete_document_chunks(name) no row of that name is
\* stored and the rows of every other document are as before; after a failed one
\* the table is as before.  For a name without rows check_document_exists
\* returns None, with which process_document skips for no hash.
C15_DeleteTotalIsolated ==
  /\ (last_op.kind = "delete" /\ last_op.ok) =>
        /\ RowsOf(table, last_op.name) = <<>>
        /\ \A other \in Names \ {last_op.name} :
              RowsOf(table, other) = RowsOf(last_op.before, other)
  /\ (last_op.kind = "delete" /\ ~last_op.ok) => table = last_op.before
  /\ (last_op.kind = "check" /\ RowsOf(last_op.before, last_op.name) = <<>>) =>
        /\ last_op.returned = None
        /\ \A text \in Texts :
              ~SkipsUnchanged(last_op.returned, calculate_file_hash(text))

\* a stored document was deleted while another document's row stayed
C15_Witness ==
  /\ last_op.kind = "delete" /\ last_op.ok
  /\ RowsOf(last_op.before, last_op.name) # <<>>
  /\ table # <<>>

\* C16: after a successful upload_chunks call every record of the list is
\* stored, after the rows stored before; after a failed one none of them is,
\* the table is as before, and the exception reaches the caller.
C16_UploadAtomic ==
  (last_op.kind = "upload") =>
     IF last_op.ok
       THEN table = last_op.before \o last_op.records
       ELSE table = last_op.before /\ last_op.error = "raised"

\* an upload into a table that already holds a row failed and left it as it was
C16_Witness ==
  /\ last_op.kind = "upload" /\ ~last_op.ok
  /\ last_op.before # <<>>
  /\ last_op.records # <<>>
  /\ table = last_op.before

\* ------------------------------------------- claims on concurrent uploads

\* number of the records of task t that are committed
RECURSIVE CountCommitted(_, _)
CountCommitted(tbl, rows) ==
  IF tbl = <<>> THEN 0
  ELSE (IF \E i \in 1..Len(rows) : rows[i] = Head(tbl) THEN 1 ELSE 0)
         + CountCommitted(Tail(tbl), rows)

\* C17: when two process_document calls for the same document name (with
\* skip_if_exists=True, each with its own file) run concurrently and both
\* return, the rows stored for the name are exactly the records of one of the
\* two runs.
C17_LastWriterWins ==
  (/\ task[1].name = task[2].name
   /\ \A t \in Tasks : task[t].skip /\ task[t].pc = "returned")
  => \E t \in Tasks : RowsOf(table, task[t].name) = TaskRows(t)

\* C18: when the two tasks ingest different documents, a commit or rollback of
\* one never commits a part of the other's records nor discards records the
\* other has inserted: of each task's records either none or all are committed,
\* all after its upload returned and none after it raised, and while a task
\* inserts, the records it has inserted so far are in the transaction.
C18_UploadsIsolated ==
  (task[1].name # task[2].name) =>
     \A t \in Tasks :
        /\ CountCommitted(table, TaskRows(t)) \in {0, Len(TaskRows(t))}
        /\ (task[t].pc = "returned") =>
              CountCommitted(table, TaskRows(t)) = Len(TaskRows(t))
        /\ (task[t].pc = "raised") => CountCommitted(table, TaskRows(t)) = 0
        /\ (task[t].pc = "insert" /\ ~txAborted) =>
              CountCommitted(pending, TaskRows(t)) = task[t].k

\* ------------------------------------------------- claims on chunk_text

\* the characters window k takes from the text
WindowText(k) == Slice(cw_text, cw_windows[k][1], cw_windows[k][2])

\* window k starts at (k-1) * (chunk_size - overlap), below len(text), and is
\* chunk_size wide
WindowPlaced(k) ==
  /\ cw_windows[k][1] = (k - 1) * (cw_size - cw_overlap)
  /\ cw_windows[k][1] < Len(cw_text)
  /\ cw_windows[k][2] = cw_windows[k][1] + cw_size

\* every character index of the text lies in a window
Covered ==
  \A i \in 0..(Len(cw_text) - 1) :
     \E k \in 1..Len(cw_windows) : cw_windows[k][1] <= i /\ i < cw_windows[k][2]

\* C19 as stated: with chunk_size > overlap >= 0 the windows start at 0,
\* chunk_size-overlap, 2*(chunk_size-overlap), ... below len(text), every
\* window but the last takes chunk_size characters, and every character index
\* lies in a window.
C19_AsStated ==
  (cw_size > cw_overlap) =>
     /\ \A k \in 1..Len(cw_windows) : WindowPlaced(k)
     /\ (cw_pc = "returned") =>
           /\ \A k \in 1..(Len(cw_windows) - 1) : Len(WindowText(k)) = cw_size
           /\ Covered

\* C19: with chunk_size > overlap >= 0 the windows start at 0,
\* chunk_size-overlap, 2*(chunk_size-overlap), ... below len(text); a window
\* takes chunk_size characters unless it reaches past the end of the text, where
\* it is cut (with an overlap that can be several trailing windows); the loop
\* ends with every character index in a window, and returns the stripped
\* non-empty window texts.
C19_CharacterCoverage ==
  (cw_size > cw_overlap) =>
     /\ \A k \in 1..Len(cw_windows) :
           /\ WindowPlaced(k)
           /\ Len(WindowText(k)) = Min(cw_size, Len(cw_text) - cw_windows[k][1])
           /\ WindowText(k) =
                SubSeq(cw_text, cw_windows[k][1] + 1, Min(cw_windows[k][2], Len(cw_text)))
     /\ (cw_pc = "loop") =>
           /\ Len(cw_chunks) = Len(cw_windows)
           /\ \A k \in 1..Len(cw_windows) : cw_chunks[k] = WindowText(k)
     /\ (cw_pc = "returned") =>
           /\ Covered
           /\ cw_start >= Len(cw_text)
           /\ cw_chunks = chunk_text(cw_text, cw_size, cw_overlap)

\* a call with an overlap returned after three or more windows, the last two
\* of them cut at the end of the text
C19_Witness ==
  /\ cw_pc = "returned"
  /\ cw_overlap > 0 /\ cw_size > cw_overlap
  /\ Len(cw_windows) >= 3
  /\ \A k \in (Len(cw_windows) - 1)..Len(cw_windows) : Len(WindowText(k)) < cw_size

\* C20: with overlap >= chunk_size and a non-empty text, chunk_text does not
\* go on slicing windows without advancing: it takes no more windows than an
\* advancing loop over the text could (one per character) before it stops with
\* an error.
C20_NonAdvancingGuard ==
  (cw_overlap >= cw_size /\ cw_text # <<>>) => Len(cw_windows) <= Len(cw_text)

\* ----------------------------------------- claims on _chunk_by_paragraph

\* the paragraphs whose indexes are ms, in that order
ParagraphsAt(ms) == [j \in 1..Len(ms) |-> pa_paragraphs[ms[j]]]

\* the places (chunk, position) at which paragraph i was joined into a chunk
PlacesOf(i) ==
  {<<k, j>> \in (1..Len(pa_origin)) \X (1..Len(pa_paragraphs)) :
     /\ ~pa_origin[k].split
     /\ j <= Len(pa_origin[k].paras)
     /\ pa_origin[k].paras[j] = i}

\* the paragraph indexes run upwards inside each chunk and from chunk to chunk
ParagraphOrderKept ==
  /\ \A k \in 1..Len(pa_origin) : \A j1, j2 \in 1..Len(pa_origin[k].paras) :
        j1 < j2 => pa_origin[k].paras[j1] < pa_origin[k].paras[j2]
  /\ \A k1, k2 \in 1..Len(pa_origin) :
        k1 < k2 =>
          \A j1 \in 1..Len(pa_origin[k1].paras) : \A j2 \in 1..Len(pa_origin[k2].paras) :
             /\ pa_origin[k1].paras[j1] <= pa_origin[k2].paras[j2]
             /\ (~pa_origin[k1].split \/ ~pa_origin[k2].split)
                  => pa_origin[k1].paras[j1] < pa_origin[k2].paras[j2]

\* C21: every chunk that is not a sub-chunk of a large paragraph is whole
\* paragraphs joined by a blank line; when the call has returned, each
\* paragraph of at most max_chunk_size characters is in exactly one chunk, and
\* the paragraphs keep their order across the chunks.
C21_SmallParagraphWhole ==
  /\ Len(pa_chunks) = Len(pa_origin)
  /\ pa_paragraphs = Paragraphs(pa_text)
  /\ \A k \in 1..Len(pa_origin) :
        ~pa_origin[k].split =>
           pa_chunks[k] = JoinParagraphs(ParagraphsAt(pa_origin[k].paras))
  /\ (pa_pc = "returned") =>
        /\ \A i \in 1..Len(pa_paragraphs) :
              Len(pa_paragraphs[i]) <= pa_max => Cardinality(PlacesOf(i)) = 1
        /\ ParagraphOrderKept

\* a returned call that joined two paragraphs into one chunk
C21_Witness ==
  /\ pa_pc = "returned"
  /\ \E k \in 1..Len(pa_origin) :
        /\ ~pa_origin[k].split
        /\ Len(pa_origin[k].paras) >= 2
        /\ Len(pa_chunks[k]) <= pa_max

\* the fragments packed into the sub-chunks of paragraph i, in chunk order
RECURSIVE FragmentsOf(_, _)
FragmentsOf(origin, i) ==
  IF origin = <<>> THEN <<>>
  ELSE (IF Head(origin).split /\ Head(origin).paras = <<i>> THEN Head(origin).parts ELSE <<>>)
         \o FragmentsOf(Tail(origin), i)

\* C25: every sub-chunk emitted for a paragraph larger than max_chunk_size is
\* its fragments joined and is at most max_chunk_size long; when the call has
\* returned, the fragments of each such paragraph are all in its sub-chunks,
\* in their order.
C25_SubChunksBounded ==
  /\ \A k \in 1..Len(pa_origin) :
        pa_origin[k].split =>
          /\ pa_chunks[k] = JoinParts(pa_origin[k].parts, pa_paragraphs[pa_origin[k].paras[1]])
          /\ Len(pa_chunks[k]) <= pa_max
  /\ (pa_pc = "returned") =>
        \A i \in 1..Len(pa_paragraphs) :
           Len(pa_paragraphs[i]) > pa_max =>
              FragmentsOf(pa_origin, i) = SubParts(pa_paragraphs[i])

\* ------------------------------------------ claims on _chunk_by_semantic

\* the call returned chunks grouped from embedded sentences
Grouped == se_pc = "returned" /\ se_valid # <<>>

\* C22: with similarity_threshold = 1.0, whatever vectors the provider gave,
\* every chunk of a returned call is exactly one sentence.
C22_ThresholdOneNoMerge ==
  (Grouped /\ se_threshold = 2) =>
     /\ Len(se_chunks) = Len(se_valid)
     /\ \A k \in 1..Len(se_chunks) : se_chunks[k] = se_valid[k]

\* the positions of given, in order, at which the provider gave a vector
RECURSIVE EmbeddedIndexes(_, _)
EmbeddedIndexes(given, from) ==
  IF from > Len(given) THEN <<>>
  ELSE (IF given[from] # NoVector THEN <<from>> ELSE <<>>)
         \o EmbeddedIndexes(given, from + 1)

\* ceil(n / size)
WindowCount(n, size) == (n + size - 1) \div size

GroupsSoFar == IF se_pc = "merge" THEN Append(se_origin, se_members) ELSE se_origin

\* sentences i and j are in the same group
SameGroup(i, j) ==
  \E k \in 1..Len(GroupsSoFar) :
     /\ \E m \in 1..Len(GroupsSoFar[k]) : GroupsSoFar[k][m] = i
     /\ \E m \in 1..Len(GroupsSoFar[k]) : GroupsSoFar[k][m] = j

\* the indexes below i of the group that holds sentence i - 1, in order
RECURSIVE Before(_, _)
Before(group, i) ==
  IF group = <<>> THEN <<>>
  ELSE (IF Head(group) < i THEN <<Head(group)>> ELSE <<>>) \o Before(Tail(group), i)

\* the length of the chunk that holds sentence i - 1, before sentence i is placed
RunningLength(i) ==
  LET k == CHOOSE g \in 1..Len(GroupsSoFar) :
             \E m \in 1..Len(GroupsSoFar[g]) : GroupsSoFar[g][m] = i - 1
      ms == Before(GroupsSoFar[k], i)
  IN  Len(JoinSentences([m \in 1..Len(ms) |-> se_valid[ms[m]]]))

\* the groups one after another
RECURSIVE Flatten(_)
Flatten(groups) == IF groups = <<>> THEN <<>> ELSE Head(groups) \o Flatten(Tail(groups))

\* the cosine of the vectors of sentences i-1 and i is at least the threshold
\* the call works with
AtLeastThreshold(i) ==
  NumberGeq(CosinePython(se_embeddings[i - 1], se_embeddings[i]),
            Ratio(ClampThreshold(se_threshold), 4))

\* C26: sentence i of the embedded sentences is in the chunk of sentence i-1
\* exactly when the cosine of their vectors is at least the threshold and the
\* running chunk length plus len(sentence i) plus 1 is at most max_chunk_size;
\* each chunk is its sentences joined by a space; when the call has returned
\* every sentence is in exactly one chunk, in order, and a chunk of two or
\* more sentences is at most max_chunk_size long.
C26_MergeRule ==
  ((se_pc = "merge" \/ Grouped)) =>
     /\ \A i \in 2..Len(Flatten(GroupsSoFar)) :
           SameGroup(i - 1, i) <=>
             /\ AtLeastThreshold(i)
             /\ RunningLength(i) + Len(se_valid[i]) + 1 <= se_max
     /\ Len(se_chunks) = Len(se_origin)
     /\ \A k \in 1..Len(se_origin) :
           /\ se_chunks[k] =
                JoinSentences([m \in 1..Len(se_origin[k]) |-> se_valid[se_origin[k][m]]])
           /\ Len(se_origin[k]) >= 2 => Len(se_chunks[k]) <= se_max
     /\ Flatten(GroupsSoFar) = [i \in 1..Len(Flatten(GroupsSoFar)) |-> i]
     /\ Grouped => Len(Flatten(se_origin)) = Len(se_valid)

\* a returned call that merged two sentences and started a new chunk with a
\* third that was similar enough but did not fit
C26_Witness ==
  /\ Grouped
  /\ \E k \in 1..Len(se_origin) : Len(se_origin[k]) >= 2
  /\ \E i \in 2..Len(se_valid) : ~SameGroup(i - 1, i) /\ AtLeastThreshold(i)

\* ------------------------------------- claims on the cosine computations

\* C24: a cosine computation over two vectors of different length ends with
\* the length error, whoever computes it; it never yields a score.
C24_DimensionMismatchRaised ==
  (co_out # NoScore /\ ~SameLength(co_vec1, co_vec2)) => co_out.kind = "ValueError"

\* ------------------------------------- claims on the existence check

\* check_document_exists answered None although rows of that name were stored
\* when the call started: its query failed
CheckFailedOnStored ==
  /\ Did("check")
  /\ existing_hash = None
  /\ RowsOf(snap, call.name) # <<>>

\* C27: a process_document call whose existence check could not query the
\* store, while chunks of that name are stored, ends by raising and leaves the
\* stored rows as they were: nothing is uploaded next to them.
C27_CheckFailureNotAbsent ==
  (CheckFailedOnStored /\ CallEnded) => (result.kind = "raised" /\ table = snap)

\* ------------------------------------- claims on the assembled records

\* the chunks_with_embeddings list the current call built
RecordsBuilt == BuildRecords(chunks, embeddings, call.name, call.hash, processed_at)

\* C28: a process_document call that returned skipped = False reports as
\* chunks_created the number of records it passed to upload_chunks; there is
\* one record per chunk, and it holds the chunk with that chunk's own vector.
C28_ReportedCountMatches ==
  (CallEnded /\ result.kind = "returned" /\ ~result.skipped) =>
     /\ result.chunks_created = Len(RecordsBuilt)
     /\ Len(RecordsBuilt) = Len(chunks)
     /\ \A i \in 1..Len(RecordsBuilt) :
           /\ RecordsBuilt[i].content = chunks[i]
           /\ RecordsBuilt[i].embedding = ProviderEmbedding(chunks[i])

\* --------------------------------------------- claims on the upload tasks

Terminal(task_data) == task_data.status \in {"completed", "failed"}

\* the store's entry for task t agrees with how its processing stands
TaskStatusRight(t) ==
  /\ (bg[t] \in {"queued", "running"}) =>
        /\ t \in DOMAIN tasks_store
        /\ tasks_store[t].status = "processing"
        /\ tasks_store[t].result = None /\ tasks_store[t].error = None
        /\ t \in uploads
  /\ (bg[t] \in {"finally", "ended"} /\ t \in DOMAIN tasks_store) =>
        IF bg_outcome[t].kind = "returned"
          THEN /\ tasks_store[t].status = "completed"
               /\ tasks_store[t].result = bg_outcome[t].value
               /\ tasks_store[t].error = None
          ELSE /\ bg_outcome[t].kind = "raised"
               /\ tasks_store[t].status = "failed"
               /\ tasks_store[t].error = bg_outcome[t].error
               /\ tasks_store[t].result = None
  /\ (bg[t] = "ended") => t \notin uploads
  /\ (bg[t] = "none") => t \notin DOMAIN tasks_store

\* a terminal task keeps its entry as it is, or is removed by the cleanup
TerminalStays ==
  \A t \in DOMAIN tasks_store :
     Terminal(tasks_store[t]) =>
        (t \notin DOMAIN tasks_store' \/ tasks_store'[t] = tasks_store[t])

ReturnedSkipped(outcome) == outcome.kind = "returned" /\ ReportsSkipped(outcome.value)
ReturnedUploaded(outcome) == outcome.kind = "returned" /\ ~ReportsSkipped(outcome.value)

\* number of the files gone through for which process_document reported
\* skipped, and for which it returned after chunking and uploading
FilesSkipped == Cardinality({k \in 1..Len(cli_seen) : ReturnedSkipped(cli_seen[k])})
FilesUploaded == Cardinality({k \in 1..Len(cli_seen) : ReturnedUploaded(cli_seen[k])})

\* C30: when cmd_embed prints its summary, processed + skipped + failed is
\* the number of files, skipped is the number of files for which
\* process_document returned skipped = True, and processed the number of
\* files it chunked and uploaded.
C30_SummaryFaithful ==
  (cli_pc = "summary") =>
     /\ cli_results.processed + cli_results.skipped + cli_results.failed = cli_files
     /\ cli_results.skipped = FilesSkipped
     /\ cli_results.processed = FilesUploaded

====
